---- MODULE Spec2Model ----
(***************************************************************************)
(* ExpenseExplorer: the deduplicating persistence layer (schema.py) and    *)
(* the insight cache / pipeline (insights_logic.py) as a state machine.    *)
(*                                                                         *)
(* Database tables are the shared state.  Every storage function is a      *)
(* small process: one step per database round trip (init_db, one SELECT    *)
(* per record, the COMMIT), so that failures, tenacity's retries and other *)
(* callers can fall between the steps.                                     *)
(*                                                                         *)
(* Amounts are Python floats in the code; here they are integers counted   *)
(* in cents (1999 is 19.99).  Timestamps are integers counted in days.     *)
(***************************************************************************)
EXTENDS Integers, Sequences, FiniteSets, TLC

\* Python's None / SQL NULL in a string-typed column or field.
None == "None"

(***************************************************************************)
(* Bounds of the model.                                                    *)
(***************************************************************************)
\* Longest batch handed to save_transactions.
MaxBatch == 2
\* The clock stops advancing once it has reached MaxNow (days).
MaxNow == 7
\* The clock is read every ClockStep days.
ClockStep == 7

(***************************************************************************)
(* Program constants.                                                      *)
(***************************************************************************)
\* tenacity: stop_after_attempt(3) on every storage function.
MaxAttempts == 3
\* Cache duration of an insight row, in days.
INSIGHTS_TTL_DAYS == 7

\* retry_if_exception_type(SQLAlchemyError): the exception classes the model
\* raises, and which of them derive from SQLAlchemyError.
\*   OperationalError  a transient storage failure (connection lost, lock)
\*   IntegrityError    a UNIQUE constraint rejected the flush
\*   AttributeError    a malformed argument (not a Transaction / a None meta)
\*   TypeError         json.dumps on a value that is not JSON serializable
\*   JSONDecodeError   json.loads on text that is not JSON
\*   ToolError         any exception escaping an insight tool
SQLAlchemyError == {"OperationalError", "IntegrityError"}

retry_if_exception_type(e) == e \in SQLAlchemyError

stop_after_attempt_mut(n) == n >= MaxAttempts + 1
stop_after_attempt(n) == n >= MaxAttempts

(***************************************************************************)
(* Transaction (pydantic) values handed to save_transactions.  The fields  *)
(* the core reads are kept by name; location stands for the enrichment     *)
(* columns that are only copied through (location, payment_method, tags,   *)
(* currency, raw_description, ..., confidence).                            *)
(***************************************************************************)
Transaction(d, desc, amt, cat, src, mer, loc) ==
  [date |-> d, description |-> desc, amount |-> amt, category |-> cat,
   source_file |-> src, merchant |-> mer, location |-> loc,
   provider_name |-> None, account_last_4 |-> None]

T1 == Transaction("2025-12-28", "Netflix", 1999, "Services", "a.pdf", None, None)
\* same identity key as T1, another category and richer enrichment fields
T2 == Transaction("2025-12-28", "Netflix", 1999, "Subscriptions", "a.pdf", "Netflix", "Online")
\* differs from T1 only in amount
T3 == Transaction("2025-12-28", "Netflix", 2999, "Services", "a.pdf", None, None)
\* no source_file: stored as "unknown"
T4 == Transaction("2025-12-28", "Netflix", 1999, "Services", None, None, None)
\* an element of the list that is not a Transaction (tx.date raises AttributeError)
NotATransaction == [malformed |-> TRUE]

TxPool == {T1, T2, T3, T4, NotATransaction}

IsTransaction(tx) == tx # NotATransaction

RECURSIVE SeqsUpTo(_, _)
SeqsUpTo(S, n) ==
  IF n = 0 THEN {<<>>}
  ELSE LET shorter == SeqsUpTo(S, n - 1)
       IN shorter \cup {Append(s, x) : s \in {t \in shorter : Len(t) = n - 1}, x \in S}

Batches == SeqsUpTo(TxPool, MaxBatch)

(***************************************************************************)
(* State.                                                                  *)
(***************************************************************************)
VARIABLES
  transactions,   \* table "transactions": sequence of DBTransaction rows, in insertion order
  statements,     \* table "statements": sequence of DBStatement rows
  insights,       \* table "insights": sequence of DBInsight rows
  now,            \* datetime.utcnow(), in days
  st,             \* save_transactions: one call record per caller
  sm,             \* save_statement_metadata: the call record
  si,             \* save_insight: one call record per caller
  pl,             \* run_full_insights_pipeline: the call record
  tc              \* a tool function called directly: the call record

vars == <<transactions, statements, insights, now, st, sm, si, pl, tc>>

\* The callers of save_transactions.
Callers == {1, 2}
\* The callers of save_insight: the pipeline, and a direct caller.
SiCallers == {"pipeline", "direct"}

(***************************************************************************)
(* DBTransaction and its UNIQUE(date, description, amount, source_file).   *)
(***************************************************************************)
\* tx.source_file or "unknown": None and "" are falsy.
SourceFileOrUnknown(src) == IF src = None \/ src = "" THEN "unknown" ELSE src

\* The row save_transactions builds from a Transaction.
DBTransaction(tx) ==
  [date |-> tx.date, description |-> tx.description, amount |-> tx.amount,
   category |-> tx.category, source_file |-> SourceFileOrUnknown(tx.source_file),
   merchant |-> tx.merchant, location |-> tx.location,
   provider_name |-> tx.provider_name, account_last_4 |-> tx.account_last_4]

\* The columns of _date_desc_amount_file_uc.
UniqueKey(row) == <<row.date, row.description, row.amount, row.source_file>>

Range(s) == {s[i] : i \in 1..Len(s)}

\* Whether flushing rows with the keys `pending` (a sequence) into a table whose
\* rows have the keys `stored` (a set) violates the UNIQUE constraint on the key.
ViolatesUnique(stored, pending) ==
  \/ \E i \in 1..Len(pending) : pending[i] \in stored
  \/ \E i, j \in 1..Len(pending) : i < j /\ pending[i] = pending[j]

\* The keys of a sequence of rows.
UniqueKeys(rows) == [k \in 1..Len(rows) |-> UniqueKey(rows[k])]

\* The existence query of save_transactions: the committed rows matching tx.
\* (autoflush=False: rows added to the session are not flushed before the SELECT.)
ExistsQuery_mut(table, tx) ==
  \E r \in Range(table) :
    /\ r.date = tx.date
    /\ r.description = tx.description
    /\ r.source_file = SourceFileOrUnknown(tx.source_file)
ExistsQuery(table, tx) ==
  \E r \in Range(table) :
    /\ r.date = tx.date
    /\ r.description = tx.description
    /\ r.amount = tx.amount
    /\ r.source_file = SourceFileOrUnknown(tx.source_file)

(***************************************************************************)
(* tenacity's @retry(stop=stop_after_attempt(3),                           *)
(* retry=retry_if_exception_type(SQLAlchemyError), reraise=True) around an *)
(* attempt that failed with exception e: either a new attempt begins or    *)
(* the exception is re-raised to the caller.                               *)
(***************************************************************************)
Retry(call, e) ==
  IF retry_if_exception_type(e) /\ ~stop_after_attempt(call.attempt)
  THEN [call EXCEPT !.pc = "begin", !.attempt = @ + 1, !.error = e]
  ELSE [call EXCEPT !.pc = "raised", !.error = e]

\* A call that is not running: never started, or ended by return or raise.
Ended(call) == call.pc \in {"idle", "returned", "raised"}

(***************************************************************************)
(* Call records.  Each function's call has a record: where it is (pc), its *)
(* arguments and locals, and how it ended.  The records are described with *)
(* the functions below.  The outcome of an ended call is kept until the    *)
(* next call of any function is made; a running call's record is left      *)
(* alone.                                                                  *)
(***************************************************************************)
StIdle ==
  [pc |-> "idle", batch |-> <<>>, i |-> 1, pending |-> <<>>, new_count |-> 0,
   attempt |-> 0, result |-> 0, error |-> None, before |-> <<>>, repeat |-> FALSE]

\* save_statement_metadata(filename, None): meta.provider_name raises AttributeError
NoMeta == [missing |-> TRUE]

SmIdle ==
  [pc |-> "idle", source_file |-> None, meta |-> NoMeta, exists |-> 0,
   attempt |-> 0, error |-> None]

InsightArgs(type, key, value, ids, conf) ==
  [insight_type |-> type, key |-> key, value |-> value, transaction_ids |-> ids,
   confidence |-> conf]

NoArgs == InsightArgs(None, None, [py |-> "none", v |-> None], <<>>, 0)

SiIdle ==
  [pc |-> "idle", args |-> NoArgs, existing |-> 0,
   value_json |-> [kind |-> "none", text |-> None], computed_at |-> 0, expires_at |-> 0,
   attempt |-> 0, error |-> None]

NoReport == <<>>

PlIdle ==
  [pc |-> "idle", force |-> FALSE, k |-> 0, results |-> <<>>, log |-> <<>>,
   report |-> NoReport, error |-> None, hit |-> FALSE]

\* A tool function called directly with argument arg, and what it returned.
TcIdle == [pc |-> "idle", fn |-> None, arg |-> None, result |-> None]

StForget(call) == IF Ended(call) THEN StIdle ELSE call
SmForget(call) == IF Ended(call) THEN SmIdle ELSE call
SiForget(call) == IF Ended(call) THEN SiIdle ELSE call
PlForget(call) == IF Ended(call) THEN PlIdle ELSE call

(***************************************************************************)
(* save_transactions(transactions) -> new_count                            *)
(*   pc: idle | begin (init_db, open the session) | loop (one record's     *)
(*       existence query and session.add) | commit | returned | raised     *)
(*   attempt, error: tenacity's attempt number and the exception of the    *)
(*       last failed attempt, kept while the call runs and when it raised  *)
(*   before, repeat: what the caller saw when it made the call (the table, *)
(*       and whether the call repeats the batch of the call that returned  *)
(*       just before it); they are not read by the function.               *)
(***************************************************************************)

\* except: session.rollback(); raise e; finally: session.close()
StFail(call, e) ==
  [Retry(call, e) EXCEPT !.i = 1, !.pending = <<>>, !.new_count = 0]

CallSaveTransactions(c, batch) ==
  /\ Ended(st[c])
  /\ st' = [d \in Callers |->
              IF d = c
              THEN [StIdle EXCEPT !.pc = "begin", !.batch = batch, !.attempt = 1,
                                  !.before = transactions,
                                  !.repeat = (st[c].pc = "returned" /\ st[c].batch = batch)]
              ELSE StForget(st[d])]
  /\ sm' = SmForget(sm)
  /\ si' = [d \in SiCallers |-> SiForget(si[d])]
  /\ pl' = PlForget(pl)
  /\ UNCHANGED <<transactions, statements, insights, now, tc>>

\* init_db(); session = SessionLocal(); new_count = 0
\* init_db is idempotent on an initialised database; it raises a storage error
\* when the database cannot be reached.
StBegin(c) ==
  /\ st[c].pc = "begin"
  /\ \/ st' = [st EXCEPT ![c] =
                 [@ EXCEPT !.pc = IF Len(st[c].batch) = 0 THEN "commit" ELSE "loop",
                           !.i = 1, !.pending = <<>>, !.new_count = 0]]
     \/ st' = [st EXCEPT ![c] = StFail(@, "OperationalError")]
  /\ UNCHANGED <<transactions, statements, insights, now, sm, si, pl, tc>>

\* One iteration of `for tx in transactions`.
StLoopBody_mut(call, table) ==
  LET tx == call.batch[call.i]
      last == call.i = Len(call.batch)
  IN [call EXCEPT !.pending = Append(@, DBTransaction(tx)),
                  !.new_count = @ + 1,
                  !.i = @ + 1,
                  !.pc = IF last THEN "commit" ELSE "loop"]
StLoopBody(call, table) ==
  LET tx == call.batch[call.i]
      last == call.i = Len(call.batch)
  IN IF ExistsQuery(table, tx)
     THEN [call EXCEPT !.i = @ + 1, !.pc = IF last THEN "commit" ELSE "loop"]
     ELSE [call EXCEPT !.pending = Append(@, DBTransaction(tx)),
                       !.new_count = @ + 1,
                       !.i = @ + 1,
                       !.pc = IF last THEN "commit" ELSE "loop"]

StLoop(c) ==
  /\ st[c].pc = "loop"
  /\ IF ~IsTransaction(st[c].batch[st[c].i])
     THEN st' = [st EXCEPT ![c] = StFail(@, "AttributeError")]
     ELSE \/ st' = [st EXCEPT ![c] = StLoopBody(@, transactions)]
          \/ st' = [st EXCEPT ![c] = StFail(@, "OperationalError")]
  /\ UNCHANGED <<transactions, statements, insights, now, sm, si, pl, tc>>

\* session.commit(): flush the INSERTs and COMMIT, as one database transaction.
\* The flush raises IntegrityError when _date_desc_amount_file_uc rejects a row.
TransactionsIntegrityError_mut(table, pending) == FALSE
TransactionsIntegrityError(table, pending) ==
  ViolatesUnique(Range(UniqueKeys(table)), UniqueKeys(pending))

\* The table after a successful session.commit().
Commit_mut(table, pending) == IF Len(pending) = 0 THEN table ELSE pending
Commit(table, pending) == table \o pending

\* The table after session.rollback(): nothing of the session reached it.
Rollback_mut(table, pending) ==
  IF Len(pending) > 0 THEN Append(table, pending[1]) ELSE table
Rollback(table, pending) == table

StCommit(c) ==
  /\ st[c].pc = "commit"
  /\ \/ /\ TransactionsIntegrityError(transactions, st[c].pending)
        /\ st' = [st EXCEPT ![c] = StFail(@, "IntegrityError")]
        /\ transactions' = Rollback(transactions, st[c].pending)
     \/ /\ ~TransactionsIntegrityError(transactions, st[c].pending)
        /\ transactions' = Commit(transactions, st[c].pending)
        /\ st' = [st EXCEPT ![c] =
                    [@ EXCEPT !.pc = "returned", !.result = st[c].new_count,
                              !.i = 1, !.pending = <<>>, !.new_count = 0,
                              !.attempt = 0, !.error = None]]
     \/ /\ st' = [st EXCEPT ![c] = StFail(@, "OperationalError")]
        /\ transactions' = Rollback(transactions, st[c].pending)
  /\ UNCHANGED <<statements, insights, now, sm, si, pl, tc>>

(***************************************************************************)
(* save_statement_metadata(source_file, meta)                              *)
(*   pc: idle | begin (open the session, SELECT the statement's row) |     *)
(*       commit (UPDATE or INSERT, COMMIT) | returned | raised             *)
(***************************************************************************)
StatementMetadata(prov, acct, pstart, pend, open, close, credits, debits) ==
  [provider_name |-> prov, account_last_4 |-> acct,
   period_start |-> pstart, period_end |-> pend,
   opening_balance |-> open, closing_balance |-> close,
   total_credits |-> credits, total_debits |-> debits]

\* A float column that is NULL.
NoAmount == -1

M1 == StatementMetadata("Chase", "1234", "2025-12-01", "2025-12-31", 10000, 5000, 2000, 7000)
\* a re-extraction that found less: most fields are None
M2 == StatementMetadata("Chase", None, None, None, NoAmount, 5000, NoAmount, NoAmount)
MetaPool == {M1, M2, NoMeta}
SourceFiles == {"a.pdf", "b.pdf"}

DBStatement(source_file, meta) ==
  [source_file |-> source_file,
   provider_name |-> meta.provider_name, account_last_4 |-> meta.account_last_4,
   period_start |-> meta.period_start, period_end |-> meta.period_end,
   opening_balance |-> meta.opening_balance, closing_balance |-> meta.closing_balance,
   total_credits |-> meta.total_credits, total_debits |-> meta.total_debits]

\* session.query(DBStatement).filter(DBStatement.source_file == source_file)
\* .first(): the position of the first matching row, 0 when there is none.
FirstStatement(table, source_file) ==
  IF \E k \in 1..Len(table) : table[k].source_file = source_file
  THEN CHOOSE k \in 1..Len(table) :
         /\ table[k].source_file = source_file
         /\ \A j \in 1..(k - 1) : table[j].source_file # source_file
  ELSE 0


SmFail(call, e) == [Retry(call, e) EXCEPT !.exists = 0]

CallSaveStatementMetadata(source_file, meta) ==
  /\ Ended(sm)
  /\ sm' = [SmIdle EXCEPT !.pc = "begin", !.source_file = source_file,
                          !.meta = meta, !.attempt = 1]
  /\ st' = [d \in Callers |-> StForget(st[d])]
  /\ si' = [d \in SiCallers |-> SiForget(si[d])]
  /\ pl' = PlForget(pl)
  /\ UNCHANGED <<transactions, statements, insights, now, tc>>

\* session = SessionLocal(); exists = session.query(DBStatement).filter(...).first()
SmBegin ==
  /\ sm.pc = "begin"
  /\ \/ sm' = [sm EXCEPT !.pc = "commit",
                            !.exists = FirstStatement(statements, sm.source_file)]
     \/ sm' = SmFail(sm, "OperationalError")
  /\ UNCHANGED <<transactions, statements, insights, now, st, si, pl, tc>>

\* The table after the attempt's UPDATE (every column but source_file is
\* assigned from meta) or INSERT.
SmWrite_mut(table, call) ==
  LET old == table[call.exists]
      new == DBStatement(call.source_file, call.meta)
      Null(f) == IF f \in {"opening_balance", "closing_balance", "total_credits", "total_debits"}
                 THEN NoAmount ELSE None
      Keep(f) == IF new[f] = Null(f) THEN old[f] ELSE new[f]
  IN IF call.exists # 0
     THEN [table EXCEPT ![call.exists] = [f \in DOMAIN new |-> Keep(f)]]
     ELSE Append(table, new)
SmWrite(table, call) ==
  IF call.exists # 0
  THEN [table EXCEPT ![call.exists] = DBStatement(call.source_file, call.meta)]
  ELSE Append(table, DBStatement(call.source_file, call.meta))

\* DBStatement.source_file is declared unique=True.
StatementsIntegrityError(table, source_file) ==
  ViolatesUnique({r.source_file : r \in Range(table)}, <<source_file>>)

SmCommit ==
  /\ sm.pc = "commit"
  /\ IF sm.meta = NoMeta
     THEN /\ sm' = SmFail(sm, "AttributeError")
          /\ UNCHANGED statements
     ELSE \/ IF sm.exists = 0 /\ StatementsIntegrityError(statements, sm.source_file)
             THEN /\ sm' = SmFail(sm, "IntegrityError")
                  /\ UNCHANGED statements
             ELSE /\ statements' = SmWrite(statements, sm)
                  /\ sm' = [sm EXCEPT !.pc = "returned", !.exists = 0]
          \/ /\ sm' = SmFail(sm, "OperationalError")
             /\ UNCHANGED statements
  /\ UNCHANGED <<transactions, insights, now, st, si, pl, tc>>

(***************************************************************************)
(* Python str.  TLC cannot take a string apart, so a string that the code  *)
(* inspects (upper, lower, in, split, <) is spelled out by Chars as the    *)
(* sequence of its characters and the operations are computed on that.     *)
(***************************************************************************)
Chars(s) ==
  CASE s = "2025-12-28" -> <<"2", "0", "2", "5", "-", "1", "2", "-", "2", "8">>
  [] s = "Netflix" -> <<"N", "e", "t", "f", "l", "i", "x">>
  [] s = "hello" -> <<"h", "e", "l", "l", "o">>
  [] s = "2025-12-01" -> <<"2", "0", "2", "5", "-", "1", "2", "-", "0", "1">>
  [] s = "2025-12-02" -> <<"2", "0", "2", "5", "-", "1", "2", "-", "0", "2">>
  [] s = "2025-12-03" -> <<"2", "0", "2", "5", "-", "1", "2", "-", "0", "3">>
  [] s = "2025-12-04" -> <<"2", "0", "2", "5", "-", "1", "2", "-", "0", "4">>
  [] s = "2025-12-05" -> <<"2", "0", "2", "5", "-", "1", "2", "-", "0", "5">>
  [] s = "2025-12-06" -> <<"2", "0", "2", "5", "-", "1", "2", "-", "0", "6">>
  [] s = "2025-12-07" -> <<"2", "0", "2", "5", "-", "1", "2", "-", "0", "7">>
  [] s = "2025-12-08" -> <<"2", "0", "2", "5", "-", "1", "2", "-", "0", "8">>
  [] s = "2025-12-09" -> <<"2", "0", "2", "5", "-", "1", "2", "-", "0", "9">>
  [] s = "2025-12-10" -> <<"2", "0", "2", "5", "-", "1", "2", "-", "1", "0">>
  [] s = "Shop01" -> <<"S", "h", "o", "p", "0", "1">>
  [] s = "Shop02" -> <<"S", "h", "o", "p", "0", "2">>
  [] s = "Shop03" -> <<"S", "h", "o", "p", "0", "3">>
  [] s = "Shop04" -> <<"S", "h", "o", "p", "0", "4">>
  [] s = "Shop05" -> <<"S", "h", "o", "p", "0", "5">>
  [] s = "Shop06" -> <<"S", "h", "o", "p", "0", "6">>
  [] s = "Shop07" -> <<"S", "h", "o", "p", "0", "7">>
  [] s = "Shop08" -> <<"S", "h", "o", "p", "0", "8">>
  [] s = "Shop09" -> <<"S", "h", "o", "p", "0", "9">>
  [] s = "Shop10" -> <<"S", "h", "o", "p", "1", "0">>
  [] s = "Shop11" -> <<"S", "h", "o", "p", "1", "1">>
  [] s = "Shop12" -> <<"S", "h", "o", "p", "1", "2">>
  [] s = "Shop13" -> <<"S", "h", "o", "p", "1", "3">>
  [] s = "Shop14" -> <<"S", "h", "o", "p", "1", "4">>
  [] s = "Shop15" -> <<"S", "h", "o", "p", "1", "5">>
  [] s = "Shop16" -> <<"S", "h", "o", "p", "1", "6">>
  [] s = "Shop17" -> <<"S", "h", "o", "p", "1", "7">>
  [] s = "Shop18" -> <<"S", "h", "o", "p", "1", "8">>
  [] s = "Shop19" -> <<"S", "h", "o", "p", "1", "9">>
  [] s = "Shop20" -> <<"S", "h", "o", "p", "2", "0">>
  [] s = "Shop21" -> <<"S", "h", "o", "p", "2", "1">>
  [] s = "Shop22" -> <<"S", "h", "o", "p", "2", "2">>
  [] s = "Shop23" -> <<"S", "h", "o", "p", "2", "3">>
  [] s = "Shop24" -> <<"S", "h", "o", "p", "2", "4">>
  [] s = "SHOP01" -> <<"S", "H", "O", "P", "0", "1">>
  [] s = "SkipA" -> <<"S", "k", "i", "p", "A">>
  [] s = "SkipB" -> <<"S", "k", "i", "p", "B">>
  [] s = "SkipC" -> <<"S", "k", "i", "p", "C">>
  [] s = "SkipD" -> <<"S", "k", "i", "p", "D">>
  [] s = "Probe" -> <<"P", "r", "o", "b", "e">>
  [] s = "Probe2" -> <<"P", "r", "o", "b", "e", "2">>
  [] s = "2025-11-01" -> <<"2", "0", "2", "5", "-", "1", "1", "-", "0", "1">>
  [] s = "2025-11-02" -> <<"2", "0", "2", "5", "-", "1", "1", "-", "0", "2">>
  [] s = "2025-11-03" -> <<"2", "0", "2", "5", "-", "1", "1", "-", "0", "3">>
  [] s = "2025-11-04" -> <<"2", "0", "2", "5", "-", "1", "1", "-", "0", "4">>
  [] s = "2025-11-05" -> <<"2", "0", "2", "5", "-", "1", "1", "-", "0", "5">>
  [] s = "2025-11-06" -> <<"2", "0", "2", "5", "-", "1", "1", "-", "0", "6">>
  [] s = "2025-11-07" -> <<"2", "0", "2", "5", "-", "1", "1", "-", "0", "7">>
  [] s = "2025-11-08" -> <<"2", "0", "2", "5", "-", "1", "1", "-", "0", "8">>
  [] s = "2025-11-09" -> <<"2", "0", "2", "5", "-", "1", "1", "-", "0", "9">>
  [] s = "2025-11-10" -> <<"2", "0", "2", "5", "-", "1", "1", "-", "1", "0">>
  [] s = "2025-11-11" -> <<"2", "0", "2", "5", "-", "1", "1", "-", "1", "1">>
  [] s = "2025-11-12" -> <<"2", "0", "2", "5", "-", "1", "1", "-", "1", "2">>
  [] s = "2025-11-13" -> <<"2", "0", "2", "5", "-", "1", "1", "-", "1", "3">>
  [] s = "2025-11-14" -> <<"2", "0", "2", "5", "-", "1", "1", "-", "1", "4">>
  [] s = "2025-11-15" -> <<"2", "0", "2", "5", "-", "1", "1", "-", "1", "5">>
  [] s = "2025-11-16" -> <<"2", "0", "2", "5", "-", "1", "1", "-", "1", "6">>
  [] s = "2025-11-17" -> <<"2", "0", "2", "5", "-", "1", "1", "-", "1", "7">>
  [] s = "2025-11-18" -> <<"2", "0", "2", "5", "-", "1", "1", "-", "1", "8">>
  [] s = "2025-11-19" -> <<"2", "0", "2", "5", "-", "1", "1", "-", "1", "9">>
  [] s = "2025-11-20" -> <<"2", "0", "2", "5", "-", "1", "1", "-", "2", "0">>
  [] s = "2025-11-21" -> <<"2", "0", "2", "5", "-", "1", "1", "-", "2", "1">>
  [] s = "2025-11-22" -> <<"2", "0", "2", "5", "-", "1", "1", "-", "2", "2">>
  [] s = "2025-11-23" -> <<"2", "0", "2", "5", "-", "1", "1", "-", "2", "3">>
  [] s = "2025-11-24" -> <<"2", "0", "2", "5", "-", "1", "1", "-", "2", "4">>
  [] s = "2025-11-25" -> <<"2", "0", "2", "5", "-", "1", "1", "-", "2", "5">>
  [] s = "2025-11-26" -> <<"2", "0", "2", "5", "-", "1", "1", "-", "2", "6">>
  [] s = "2025-11-27" -> <<"2", "0", "2", "5", "-", "1", "1", "-", "2", "7">>
  [] s = "2025-11-28" -> <<"2", "0", "2", "5", "-", "1", "1", "-", "2", "8">>
  [] s = "2025-11-29" -> <<"2", "0", "2", "5", "-", "1", "1", "-", "2", "9">>
  [] s = "2025-11-30" -> <<"2", "0", "2", "5", "-", "1", "1", "-", "3", "0">>
  [] s = "UBER" -> <<"U", "B", "E", "R">>
  [] s = "LYFT" -> <<"L", "Y", "F", "T">>
  [] s = "TAXI" -> <<"T", "A", "X", "I">>
  [] s = "METRO" -> <<"M", "E", "T", "R", "O">>
  [] s = "TRANSIT" -> <<"T", "R", "A", "N", "S", "I", "T">>
  [] s = "PARKING" -> <<"P", "A", "R", "K", "I", "N", "G">>
  [] s = "GAS" -> <<"G", "A", "S">>
  [] s = "SHELL" -> <<"S", "H", "E", "L", "L">>
  [] s = "CHEVRON" -> <<"C", "H", "E", "V", "R", "O", "N">>
  [] s = "EXXON" -> <<"E", "X", "X", "O", "N">>
  [] s = "WALMART" -> <<"W", "A", "L", "M", "A", "R", "T">>
  [] s = "COSTCO" -> <<"C", "O", "S", "T", "C", "O">>
  [] s = "SAFEWAY" -> <<"S", "A", "F", "E", "W", "A", "Y">>
  [] s = "KROGER" -> <<"K", "R", "O", "G", "E", "R">>
  [] s = "TRADER JOE" -> <<"T", "R", "A", "D", "E", "R", " ", "J", "O", "E">>
  [] s = "WHOLE FOODS" -> <<"W", "H", "O", "L", "E", " ", "F", "O", "O", "D", "S">>
  [] s = "ALDI" -> <<"A", "L", "D", "I">>
  [] s = "PUBLIX" -> <<"P", "U", "B", "L", "I", "X">>
  [] s = "HEB" -> <<"H", "E", "B">>
  [] s = "RESTAURANT" -> <<"R", "E", "S", "T", "A", "U", "R", "A", "N", "T">>
  [] s = "CAFE" -> <<"C", "A", "F", "E">>
  [] s = "COFFEE" -> <<"C", "O", "F", "F", "E", "E">>
  [] s = "STARBUCKS" -> <<"S", "T", "A", "R", "B", "U", "C", "K", "S">>
  [] s = "MCDONALDS" -> <<"M", "C", "D", "O", "N", "A", "L", "D", "S">>
  [] s = "CHIPOTLE" -> <<"C", "H", "I", "P", "O", "T", "L", "E">>
  [] s = "PIZZA" -> <<"P", "I", "Z", "Z", "A">>
  [] s = "SUSHI" -> <<"S", "U", "S", "H", "I">>
  [] s = "GRUBHUB" -> <<"G", "R", "U", "B", "H", "U", "B">>
  [] s = "DOORDASH" -> <<"D", "O", "O", "R", "D", "A", "S", "H">>
  [] s = "AIRLINE" -> <<"A", "I", "R", "L", "I", "N", "E">>
  [] s = "HOTEL" -> <<"H", "O", "T", "E", "L">>
  [] s = "MARRIOTT" -> <<"M", "A", "R", "R", "I", "O", "T", "T">>
  [] s = "HILTON" -> <<"H", "I", "L", "T", "O", "N">>
  [] s = "HERTZ" -> <<"H", "E", "R", "T", "Z">>
  [] s = "AVIS" -> <<"A", "V", "I", "S">>
  [] s = "AIRBNB" -> <<"A", "I", "R", "B", "N", "B">>
  [] s = "BOOKING" -> <<"B", "O", "O", "K", "I", "N", "G">>
  [] s = "EXPEDIA" -> <<"E", "X", "P", "E", "D", "I", "A">>
  [] s = "SOUTHWEST" -> <<"S", "O", "U", "T", "H", "W", "E", "S", "T">>
  [] s = "DELTA" -> <<"D", "E", "L", "T", "A">>
  [] s = "UNITED" -> <<"U", "N", "I", "T", "E", "D">>
  [] s = "NETFLIX" -> <<"N", "E", "T", "F", "L", "I", "X">>
  [] s = "SPOTIFY" -> <<"S", "P", "O", "T", "I", "F", "Y">>
  [] s = "APPLE" -> <<"A", "P", "P", "L", "E">>
  [] s = "AMAZON PRIME" -> <<"A", "M", "A", "Z", "O", "N", " ", "P", "R", "I", "M", "E">>
  [] s = "HULU" -> <<"H", "U", "L", "U">>
  [] s = "HBO" -> <<"H", "B", "O">>
  [] s = "DISNEY" -> <<"D", "I", "S", "N", "E", "Y">>
  [] s = "YOUTUBE" -> <<"Y", "O", "U", "T", "U", "B", "E">>
  [] s = "INSURANCE" -> <<"I", "N", "S", "U", "R", "A", "N", "C", "E">>
  [] s = "GEICO" -> <<"G", "E", "I", "C", "O">>
  [] s = "STATE FARM" -> <<"S", "T", "A", "T", "E", " ", "F", "A", "R", "M">>
  [] s = "ALLSTATE" -> <<"A", "L", "L", "S", "T", "A", "T", "E">>
  [] s = "PROGRESSIVE" -> <<"P", "R", "O", "G", "R", "E", "S", "S", "I", "V", "E">>
  [] s = "ELECTRIC" -> <<"E", "L", "E", "C", "T", "R", "I", "C">>
  [] s = "WATER" -> <<"W", "A", "T", "E", "R">>
  [] s = "GAS BILL" -> <<"G", "A", "S", " ", "B", "I", "L", "L">>
  [] s = "INTERNET" -> <<"I", "N", "T", "E", "R", "N", "E", "T">>
  [] s = "COMCAST" -> <<"C", "O", "M", "C", "A", "S", "T">>
  [] s = "ATT" -> <<"A", "T", "T">>
  [] s = "VERIZON" -> <<"V", "E", "R", "I", "Z", "O", "N">>
  [] s = "TMOBILE" -> <<"T", "M", "O", "B", "I", "L", "E">>
  [] s = "AMAZON" -> <<"A", "M", "A", "Z", "O", "N">>
  [] s = "TARGET" -> <<"T", "A", "R", "G", "E", "T">>
  [] s = "BEST BUY" -> <<"B", "E", "S", "T", " ", "B", "U", "Y">>
  [] s = "APPLE STORE" -> <<"A", "P", "P", "L", "E", " ", "S", "T", "O", "R", "E">>
  [] s = "NORDSTROM" -> <<"N", "O", "R", "D", "S", "T", "R", "O", "M">>
  [] s = "MACYS" -> <<"M", "A", "C", "Y", "S">>
  [] s = " EATS" -> <<" ", "E", "A", "T", "S">>
  [] s = " DELIVERY" -> <<" ", "D", "E", "L", "I", "V", "E", "R", "Y">>
  [] s = "XYZCORP123" -> <<"X", "Y", "Z", "C", "O", "R", "P", "1", "2", "3">>
  [] s = "Shell" -> <<"S", "h", "e", "l", "l">>
  [] s = " gas" -> <<" ", "g", "a", "s">>
  [] s = " Bill" -> <<" ", "B", "i", "l", "l">>
  [] s = "Amazon" -> <<"A", "m", "a", "z", "o", "n">>
  [] s = " Prime" -> <<" ", "P", "r", "i", "m", "e">>
  [] s = "cafe" -> <<"c", "a", "f", "e">>
  [] s = "2025-10-01" -> <<"2", "0", "2", "5", "-", "1", "0", "-", "0", "1">>
  [] s = "2025-09-01" -> <<"2", "0", "2", "5", "-", "0", "9", "-", "0", "1">>
  [] s = "2025-08-01" -> <<"2", "0", "2", "5", "-", "0", "8", "-", "0", "1">>
  [] s = "2025-07-01" -> <<"2", "0", "2", "5", "-", "0", "7", "-", "0", "1">>
  [] s = "2025-06-01" -> <<"2", "0", "2", "5", "-", "0", "6", "-", "0", "1">>
  [] s = "2025-05-01" -> <<"2", "0", "2", "5", "-", "0", "5", "-", "0", "1">>
  [] s = "2025-04-01" -> <<"2", "0", "2", "5", "-", "0", "4", "-", "0", "1">>
  [] s = "2025-03-01" -> <<"2", "0", "2", "5", "-", "0", "3", "-", "0", "1">>
  [] s = "2025-02-01" -> <<"2", "0", "2", "5", "-", "0", "2", "-", "0", "1">>
  [] s = "2025-01-01" -> <<"2", "0", "2", "5", "-", "0", "1", "-", "0", "1">>
  [] s = "2024-12-01" -> <<"2", "0", "2", "4", "-", "1", "2", "-", "0", "1">>
  [] s = "2024-11-01" -> <<"2", "0", "2", "4", "-", "1", "1", "-", "0", "1">>
  [] s = "2024-10-01" -> <<"2", "0", "2", "4", "-", "1", "0", "-", "0", "1">>
  [] s = "2024-09-01" -> <<"2", "0", "2", "4", "-", "0", "9", "-", "0", "1">>
  [] s = "2024-08-01" -> <<"2", "0", "2", "4", "-", "0", "8", "-", "0", "1">>
  [] s = "2025-10-31" -> <<"2", "0", "2", "5", "-", "1", "0", "-", "3", "1">>
  [] s = "2025-10-15" -> <<"2", "0", "2", "5", "-", "1", "0", "-", "1", "5">>
  [] s = "2025-09-08" -> <<"2", "0", "2", "5", "-", "0", "9", "-", "0", "8">>
  [] s = "2025-09-07" -> <<"2", "0", "2", "5", "-", "0", "9", "-", "0", "7">>
  [] s = "12/05/2025" -> <<"1", "2", "/", "0", "5", "/", "2", "0", "2", "5">>
  [] s = "13/12/2025" -> <<"1", "3", "/", "1", "2", "/", "2", "0", "2", "5">>
  [] s = "Dec 3" -> <<"D", "e", "c", " ", "3">>
  [] s = "2025-13-01" -> <<"2", "0", "2", "5", "-", "1", "3", "-", "0", "1">>
  [] s = "05-12-2025" -> <<"0", "5", "-", "1", "2", "-", "2", "0", "2", "5">>
  [] s = "2025/12/05" -> <<"2", "0", "2", "5", "/", "1", "2", "/", "0", "5">>

Digits == <<"0", "1", "2", "3", "4", "5", "6", "7", "8", "9">>
LowerCase == <<"a", "b", "c", "d", "e", "f", "g", "h", "i", "j", "k", "l", "m",
               "n", "o", "p", "q", "r", "s", "t", "u", "v", "w", "x", "y", "z">>
UpperCase == <<"A", "B", "C", "D", "E", "F", "G", "H", "I", "J", "K", "L", "M",
               "N", "O", "P", "Q", "R", "S", "T", "U", "V", "W", "X", "Y", "Z">>

\* The position of x in the sequence s, 0 when it is not there.
IndexOf(s, x) ==
  IF \E k \in 1..Len(s) : s[k] = x THEN CHOOSE k \in 1..Len(s) : s[k] = x ELSE 0

\* ord(c) for the characters that occur in the model's strings.
Ord(c) ==
  CASE IndexOf(Digits, c) # 0 -> 47 + IndexOf(Digits, c)
    [] IndexOf(UpperCase, c) # 0 -> 64 + IndexOf(UpperCase, c)
    [] IndexOf(LowerCase, c) # 0 -> 96 + IndexOf(LowerCase, c)
    [] c = " " -> 32
    [] c = "&" -> 38
    [] c = "'" -> 39
    [] c = "-" -> 45
    [] c = "." -> 46
    [] c = "/" -> 47
    [] c = ":" -> 58

\* str.upper() and str.lower(), on character sequences.
upper(cs) ==
  [k \in 1..Len(cs) |->
     IF IndexOf(LowerCase, cs[k]) # 0 THEN UpperCase[IndexOf(LowerCase, cs[k])] ELSE cs[k]]
lower(cs) ==
  [k \in 1..Len(cs) |->
     IF IndexOf(UpperCase, cs[k]) # 0 THEN LowerCase[IndexOf(UpperCase, cs[k])] ELSE cs[k]]

\* `kw in text`: substring containment.
Contains(text, kw) ==
  \E k \in 0..(Len(text) - Len(kw)) : \A j \in 1..Len(kw) : text[k + j] = kw[j]

\* a < b for str: lexicographic by code point.
StrLess(a, b) ==
  \E k \in 1..Len(b) :
    /\ \A j \in 1..(k - 1) : j <= Len(a) /\ a[j] = b[j]
    /\ k > Len(a) \/ Ord(a[k]) < Ord(b[k])

(***************************************************************************)
(* Helpers for the insight tools: stable sorting and grouping.             *)
(***************************************************************************)
\* sorted(items, key=...): items reordered by ascending integer keys (keys[k]
\* is the key of items[k]); equal keys keep their order.
SortedByInt(items, keys) ==
  LET n == Len(items)
      rank(i) == 1 + Cardinality({j \in 1..n : keys[j] < keys[i]
                                                 \/ (keys[j] = keys[i] /\ j < i)})
  IN [k \in 1..n |-> items[CHOOSE i \in 1..n : rank(i) = k]]

\* The same with str keys (character sequences).  The keys and the ranks are
\* each computed once, as tuples.
StrRanks(keys) ==
  [i \in 1..Len(keys) |->
     1 + Cardinality({j \in 1..Len(keys) : StrLess(keys[j], keys[i])
                                              \/ (keys[j] = keys[i] /\ j < i)})] \o <<>>

PlacedByRank(items, ranks) ==
  [k \in 1..Len(items) |-> items[CHOOSE i \in 1..Len(items) : ranks[i] = k]] \o <<>>

SortedByStr(items, keys) ==
  CHOOSE sorted \in {PlacedByRank(items, ranks) :
                       ranks \in {StrRanks(ks) : ks \in {keys \o <<>>}}} : TRUE

\* The members of a set of integers, ascending.
Ascending(S) ==
  [k \in 1..Cardinality(S) |-> CHOOSE i \in S : Cardinality({j \in S : j < i}) = k - 1]

\* The distinct values of a sequence, each at its first occurrence.
Distinct(seq) ==
  LET idx == Ascending({i \in 1..Len(seq) : \A j \in 1..(i - 1) : seq[j] # seq[i]})
  IN [k \in 1..Len(idx) |-> seq[idx[k]]]

RECURSIVE Sum(_)
Sum(seq) == IF Len(seq) = 0 THEN 0 ELSE seq[1] + Sum(Tail(seq))

\* The items of a sequence whose flag is set (keep[k] for items[k]).
Filter(items, keep) ==
  LET idx == Ascending({i \in 1..Len(items) : keep[i]})
  IN [k \in 1..Len(idx) |-> items[idx[k]]]

(***************************************************************************)
(* TOOL 1: summarize_by_category().  The dict is the sequence of its       *)
(* (category, total) items in insertion order, which is the query's order. *)
(* SUM(amount) is exact here; the code sums floats and rounds to 2 places. *)
(***************************************************************************)
summarize_by_category_mut(table) ==
  LET cats == Distinct([k \in 1..Len(table) |-> table[k].category])
      total(c) == Sum([k \in 1..Len(table) |->
                         IF table[k].category = c THEN table[k].amount ELSE 0])
      groups == [k \in 1..Len(cats) |-> <<cats[k], total(cats[k])>>]
  IN SortedByInt(groups, [k \in 1..Len(groups) |-> 0 - groups[k][2]])
summarize_by_category(table) ==
  LET rows == Filter(table, [k \in 1..Len(table) |-> table[k].category # None])
      cats == Distinct([k \in 1..Len(rows) |-> rows[k].category])
      total(c) == Sum([k \in 1..Len(rows) |->
                         IF rows[k].category = c THEN rows[k].amount ELSE 0])
      groups == [k \in 1..Len(cats) |-> <<cats[k], total(cats[k])>>]
  IN SortedByInt(groups, [k \in 1..Len(groups) |-> 0 - groups[k][2]])

(***************************************************************************)
(* TOOL 2: enrich_merchant(merchant_name).  The name is a str, given as    *)
(* its characters.  MERCHANT_RULES is the dict in declaration order, each  *)
(* item a (category, keywords) pair.                                       *)
(***************************************************************************)
MERCHANT_RULES ==
  <<<<"Transportation",
      <<"UBER", "LYFT", "TAXI", "METRO", "TRANSIT", "PARKING", "GAS", "SHELL", "CHEVRON", "EXXON">>>>,
    <<"Groceries",
      <<"WALMART", "COSTCO", "SAFEWAY", "KROGER", "TRADER JOE", "WHOLE FOODS", "ALDI", "PUBLIX", "HEB">>>>,
    <<"Dining",
      <<"RESTAURANT", "CAFE", "COFFEE", "STARBUCKS", "MCDONALDS", "CHIPOTLE", "PIZZA", "SUSHI", "GRUBHUB", "DOORDASH">>>>,
    <<"Travel",
      <<"AIRLINE", "HOTEL", "MARRIOTT", "HILTON", "HERTZ", "AVIS", "AIRBNB", "BOOKING", "EXPEDIA", "SOUTHWEST", "DELTA", "UNITED">>>>,
    <<"Subscriptions",
      <<"NETFLIX", "SPOTIFY", "APPLE", "AMAZON PRIME", "HULU", "HBO", "DISNEY", "YOUTUBE">>>>,
    <<"Insurance",
      <<"INSURANCE", "GEICO", "STATE FARM", "ALLSTATE", "PROGRESSIVE">>>>,
    <<"Utilities",
      <<"ELECTRIC", "WATER", "GAS BILL", "INTERNET", "COMCAST", "ATT", "VERIZON", "TMOBILE">>>>,
    <<"Shopping",
      <<"AMAZON", "TARGET", "BEST BUY", "APPLE STORE", "NORDSTROM", "MACYS">>>>>>

\* {"type": "Unknown", "inferred_category": "Miscellaneous"}
UnknownMerchant == [type |-> "Unknown", inferred_category |-> "Miscellaneous"]

\* The keywords of MERCHANT_RULES, spelled out.
KeywordChars ==
  [c \in 1..Len(MERCHANT_RULES) |->
     [k \in 1..Len(MERCHANT_RULES[c][2]) |-> Chars(MERCHANT_RULES[c][2][k])]]

\* `keyword in upper_name` for the k-th keyword of the c-th category.
KeywordIn(upper_name, c, k) == Contains(upper_name, KeywordChars[c][k])

\* The (category, keyword) positions the nested loops visit, and whether
\* (c, k) is visited before (d, j).
RulePositions ==
  {<<c, k>> \in (1..Len(MERCHANT_RULES)) \X (1..12) : k <= Len(MERCHANT_RULES[c][2])}
VisitedBefore_mut(c, k, d, j) == c > d \/ (c = d /\ k < j)
VisitedBefore(c, k, d, j) == c < d \/ (c = d /\ k < j)

enrich_merchant(merchant_name) ==
  IF Len(merchant_name) = 0 THEN UnknownMerchant
  ELSE LET upper_name == upper(merchant_name)
           hits == {p \in RulePositions : KeywordIn(upper_name, p[1], p[2])}
       IN IF hits = {} THEN UnknownMerchant
          ELSE LET first == CHOOSE p \in hits :
                              \A q \in hits \ {p} : VisitedBefore(p[1], p[2], q[1], q[2])
               IN [type |-> MERCHANT_RULES[first[1]][1],
                   inferred_category |-> MERCHANT_RULES[first[1]][1],
                   matched_keyword |-> MERCHANT_RULES[first[1]][2][first[2]]]

(***************************************************************************)
(* TOOL 3: detect_subscriptions().                                         *)
(***************************************************************************)
SUBSCRIPTION_KEYWORDS ==
  << <<"S", "U", "B", "S", "C", "R", "I", "P", "T", "I", "O", "N">>,
     <<"M", "O", "N", "T", "H", "L", "Y">>,
     <<"N", "E", "T", "F", "L", "I", "X">>,
     <<"S", "P", "O", "T", "I", "F", "Y">>,
     <<"A", "P", "P", "L", "E">>,
     <<"A", "M", "A", "Z", "O", "N", " ", "P", "R", "I", "M", "E">>,
     <<"H", "U", "L", "U">>,
     <<"H", "B", "O">>,
     <<"D", "I", "S", "N", "E", "Y">>,
     <<"Y", "O", "U", "T", "U", "B", "E">>,
     <<"I", "N", "S", "U", "R", "A", "N", "C", "E">> >>

\* description.upper() if description else ""
UpperDesc(description) ==
  IF description = None \/ description = "" THEN <<>> ELSE upper(Chars(description))

is_likely_subscription(description) ==
  \E k \in 1..Len(SUBSCRIPTION_KEYWORDS) :
    Contains(UpperDesc(description), SUBSCRIPTION_KEYWORDS[k])

\* if is_likely_subscription or occurrences >= 3
IncludedGroup_mut(description, occurrences) ==
  is_likely_subscription(description) \/ occurrences >= 2
IncludedGroup(description, occurrences) ==
  is_likely_subscription(description) \/ occurrences >= 3

detect_subscriptions(table) ==
  LET keyOf(r) == <<r.description, r.amount, r.provider_name, r.account_last_4>>
      keys == Distinct([k \in 1..Len(table) |-> keyOf(table[k])])
      count(g) == Cardinality({k \in 1..Len(table) : keyOf(table[k]) = g})
      \* GROUP BY ... HAVING COUNT(*) >= 2 ORDER BY occurrences DESC
      having == Filter(keys, [k \in 1..Len(keys) |-> count(keys[k]) >= 2])
      result == SortedByInt(having, [k \in 1..Len(having) |-> 0 - count(having[k])])
      included == Filter(result,
                         [k \in 1..Len(result) |->
                            IncludedGroup(result[k][1], count(result[k]))])
  IN [k \in 1..Len(included) |->
        [description |-> included[k][1],
         amount |-> included[k][2],
         occurrences |-> count(included[k]),
         provider |-> included[k][3],
         account |-> included[k][4],
         is_likely_subscription |-> is_likely_subscription(included[k][1]),
         estimated_monthly_cost |->
           IF count(included[k]) >= 2 THEN included[k][2] ELSE 0]]

(***************************************************************************)
(* TOOL 3.5: detect_anomalies().                                           *)
(***************************************************************************)
\* Transactions the anomaly and trend tools leave out.
NON_EXPENSE_CATEGORIES == {"Credit Card Payment", "Internal Transfer"}
\* category_spending[tx.category][-10:]
SPIKE_WINDOW == 10
\* tx.amount > 50, in cents
SPIKE_FLOOR == 5000
\* len(seen_merchants) > 20
COLD_START_MERCHANTS == 20
\* anomalies[-5:]
LATEST_ANOMALIES == 5

\* seq[-n:]
LastN_mut(seq, n) ==
  IF Len(seq) <= n THEN seq ELSE SubSeq(seq, 1, n)
LastN(seq, n) ==
  IF Len(seq) <= n THEN seq ELSE SubSeq(seq, Len(seq) - n + 1, Len(seq))

\* tx.merchant or tx.description
MerchantOrDescription(tx) ==
  IF tx.merchant = None \/ tx.merchant = "" THEN tx.description ELSE tx.merchant

\* m_key = (tx.merchant or tx.description).lower()
MerchantKey(tx) == lower(Chars(MerchantOrDescription(tx)))

\* if tx.amount <= 0 or tx.category in [...]: continue
IsSkipped_mut(tx) == tx.amount < 0 \/ tx.category \in NON_EXPENSE_CATEGORIES
IsSkipped(tx) == tx.amount <= 0 \/ tx.category \in NON_EXPENSE_CATEGORIES

\* recent_spending = category_spending[tx.category][-10:]
RecentSpending(amounts) == LastN(amounts, SPIKE_WINDOW)

\* len(seen_merchants) > 20
ColdStartOver_mut(seen_merchants) == Cardinality(seen_merchants) > COLD_START_MERCHANTS - 2
ColdStartOver(seen_merchants) == Cardinality(seen_merchants) > COLD_START_MERCHANTS

\* 1. Spike Detection: the anomalies appended for tx, given recent_spending.
\*   avg = sum(recent) / len(recent);  amount > avg * 2.5  is  2 * n * amount > 5 * sum
\*   amount > avg * 5  is  n * amount > 5 * sum
SpikeOf_mut(tx, recent_spending) ==
  LET n == Len(recent_spending) + 1
      total == Sum(recent_spending) + tx.amount
  IN IF 2 * n * tx.amount > 5 * total /\ tx.amount > SPIKE_FLOOR
     THEN <<[type |-> "spike",
             severity |-> IF n * tx.amount > 5 * total THEN "high" ELSE "medium",
             description |-> <<"Unusually high ", tx.category, " expense">>,
             amount |-> tx.amount,
             date |-> tx.date,
             merchant |-> MerchantOrDescription(tx)]>>
     ELSE <<>>
SpikeOf(tx, recent_spending) ==
  LET n == Len(recent_spending)
      total == Sum(recent_spending)
  IN IF n > 0 /\ 2 * n * tx.amount > 5 * total /\ tx.amount > SPIKE_FLOOR
     THEN <<[type |-> "spike",
             severity |-> IF n * tx.amount > 5 * total THEN "high" ELSE "medium",
             description |-> <<"Unusually high ", tx.category, " expense">>,
             amount |-> tx.amount,
             date |-> tx.date,
             merchant |-> MerchantOrDescription(tx)]>>
     ELSE <<>>

\* 2. New Merchant Detection: the anomalies appended for tx, given seen_merchants.
NewMerchantOf(tx, seen_merchants) ==
  IF MerchantKey(tx) \notin seen_merchants /\ ColdStartOver(seen_merchants)
  THEN <<[type |-> "new_merchant",
          severity |-> "low",
          description |-> <<"First time spending at ", MerchantOrDescription(tx), "">>,
          amount |-> tx.amount,
          date |-> tx.date,
          merchant |-> MerchantOrDescription(tx)]>>
  ELSE <<>>

\* The anomalies one transaction emits, given the transactions that were
\* processed (not skipped) before it.  category_spending and seen_merchants
\* are read off that history: they are only ever appended to.
AnomaliesOf(tx, history) ==
  LET same == Filter(history, [k \in 1..Len(history) |-> history[k].category = tx.category])
      recent_spending == RecentSpending([k \in 1..Len(same) |-> same[k].amount])
      seen_merchants == {MerchantKey(history[k]) : k \in 1..Len(history)}
  IN SpikeOf(tx, recent_spending) \o NewMerchantOf(tx, seen_merchants)

\* for tx in sorted_txs: the anomalies emitted from the k-th transaction on.
RECURSIVE AnomalyPass(_, _, _)
AnomalyPass(sorted_txs, k, history) ==
  IF k > Len(sorted_txs) THEN <<>>
  ELSE IF IsSkipped(sorted_txs[k]) THEN AnomalyPass(sorted_txs, k + 1, history)
  ELSE AnomaliesOf(sorted_txs[k], history)
         \o AnomalyPass(sorted_txs, k + 1, Append(history, sorted_txs[k]))

detect_anomalies(table) ==
  IF Len(table) = 0 THEN <<>>
  ELSE LET sorted_txs == SortedByStr(table, [k \in 1..Len(table) |-> Chars(table[k].date)])
       IN LastN(AnomalyPass(sorted_txs, 1, <<>>), LATEST_ANOMALIES)

\* detect_anomalies() called directly, one iteration of its loop at a time.
\*   pc: idle | loop (before the i-th transaction of sorted_txs) | returned
\*   category_spending: the defaultdict(list), a function on the categories
\*   of the table; seen_merchants: the set; anomalies: the list so far.
CallDetectAnomalies ==
  /\ tc.pc = "idle"
  /\ tc' = IF Len(transactions) = 0
            THEN [pc |-> "returned", fn |-> "detect_anomalies", arg |-> None,
                  result |-> <<>>, sorted_txs |-> <<>>, i |-> 1,
                  category_spending |-> <<>>, seen_merchants |-> {}, anomalies |-> <<>>]
            ELSE [pc |-> "loop", fn |-> "detect_anomalies", arg |-> None,
                  result |-> None,
                  sorted_txs |-> SortedByStr(transactions,
                                             [k \in 1..Len(transactions) |->
                                                Chars(transactions[k].date)]),
                  i |-> 1,
                  category_spending |->
                    [c \in {transactions[k].category : k \in 1..Len(transactions)} |-> <<>>],
                  seen_merchants |-> {},
                  anomalies |-> <<>>]
  /\ UNCHANGED <<transactions, statements, insights, now, st, sm, si, pl>>

\* The body of `for tx in sorted_txs` for the i-th transaction.
AnomalyLoopBody(call) ==
  LET tx == call.sorted_txs[call.i]
  IN IF IsSkipped(tx) THEN [call EXCEPT !.i = @ + 1]
     ELSE [call EXCEPT
             !.i = @ + 1,
             !.anomalies =
               @ \o SpikeOf(tx, RecentSpending(call.category_spending[tx.category]))
                 \o NewMerchantOf(tx, call.seen_merchants),
             !.category_spending[tx.category] = Append(@, tx.amount),
             !.seen_merchants = @ \cup {MerchantKey(tx)}]

\* One iteration, or the return of anomalies[-5:] after the last one.
AnomalyLoop ==
  /\ tc.pc = "loop"
  /\ tc' = IF tc.i <= Len(tc.sorted_txs)
            THEN AnomalyLoopBody(tc)
            ELSE [tc EXCEPT !.pc = "returned",
                            !.result = LastN(tc.anomalies, LATEST_ANOMALIES)]
  /\ UNCHANGED <<transactions, statements, insights, now, st, sm, si, pl>>

(***************************************************************************)
(* TOOL 5: analyze_trends().  datetime values are (year, month, day)       *)
(* triples; the time of day is always 00:00.                               *)
(***************************************************************************)
\* str.split(sep) for a one-character separator.
RECURSIVE Split(_, _)
Split(cs, sep) ==
  IF \E k \in 1..Len(cs) : cs[k] = sep
  THEN LET k == CHOOSE i \in 1..Len(cs) : cs[i] = sep /\ \A j \in 1..(i - 1) : cs[j] # sep
       IN <<SubSeq(cs, 1, k - 1)>> \o Split(SubSeq(cs, k + 1, Len(cs)), sep)
  ELSE <<cs>>

\* Whether int(part) succeeds: a non-empty run of decimal digits.  (int also
\* takes surrounding blanks, a sign and underscores; no string of the model
\* has them.)
IsInt(part) == Len(part) > 0 /\ \A k \in 1..Len(part) : IndexOf(Digits, part[k]) # 0

RECURSIVE ToInt(_)
ToInt(part) ==
  IF Len(part) = 0 THEN 0
  ELSE 10 * ToInt(SubSeq(part, 1, Len(part) - 1)) + IndexOf(Digits, part[Len(part)]) - 1

IsLeap(y) == (y % 4 = 0 /\ y % 100 # 0) \/ y % 400 = 0

DaysInMonth(y, m) ==
  CASE m \in {1, 3, 5, 7, 8, 10, 12} -> 31
    [] m \in {4, 6, 9, 11} -> 30
    [] m = 2 -> IF IsLeap(y) THEN 29 ELSE 28

\* Whether datetime(y, m, d) succeeds (it raises ValueError otherwise).
IsDate(y, m, d) ==
  /\ y >= 1 /\ y <= 9999
  /\ m >= 1 /\ m <= 12
  /\ d >= 1 /\ d <= DaysInMonth(y, m)

\* No datetime: the transaction is skipped (dt stayed None, or the parse raised).
NoDate == <<>>

\* datetime(int(a), int(b), int(c)), NoDate when it raises.
DateOfParts(a, b, c) ==
  IF IsInt(a) /\ IsInt(b) /\ IsInt(c) /\ IsDate(ToInt(a), ToInt(b), ToInt(c))
  THEN <<ToInt(a), ToInt(b), ToInt(c)>>
  ELSE NoDate

\* The date parsing of analyze_trends, on the characters of tx.date.
ParseDate(cs) ==
  IF Contains(cs, <<"-">>)
  THEN LET parts == Split(cs, "-")
       IN IF Len(parts[1]) = 4 /\ Len(parts) >= 3
          THEN DateOfParts(parts[1], parts[2], parts[3])
          ELSE NoDate
  ELSE IF Contains(cs, <<"/">>)
  THEN LET parts == Split(cs, "/")
       IN IF Len(parts) >= 3 /\ Len(parts[3]) = 4
          THEN IF DateOfParts(parts[3], parts[1], parts[2]) # NoDate
               THEN DateOfParts(parts[3], parts[1], parts[2])
               ELSE DateOfParts(parts[3], parts[2], parts[1])
          ELSE NoDate
  ELSE NoDate

\* datetime.toordinal(): the day number, 0001-01-01 being day 1.
RECURSIVE DaysBeforeMonth(_, _)
DaysBeforeMonth(y, m) ==
  IF m = 1 THEN 0 ELSE DaysBeforeMonth(y, m - 1) + DaysInMonth(y, m - 1)

Ordinal(dt) ==
  LET y == dt[1] - 1
  IN 365 * y + (y \div 4) - (y \div 100) + (y \div 400) + DaysBeforeMonth(dt[1], dt[2]) + dt[3]

\* str(n).zfill(width), for n >= 0.
RECURSIVE Decimal(_)
Decimal(n) == IF n < 10 THEN <<Digits[n + 1]>> ELSE Append(Decimal(n \div 10), Digits[(n % 10) + 1])

RECURSIVE ZeroPad(_, _)
ZeroPad(cs, width) == IF Len(cs) >= width THEN cs ELSE ZeroPad(<<"0">> \o cs, width)

\* strftime('%Y-%m-%d'), strftime('%Y-%m') and strftime('%Y-W%W').
\* %W: week of the year, Monday first; the days before the first Monday are
\* week 00.  Day 1 of the calendar is a Monday.
StrfDay(dt) ==
  ZeroPad(Decimal(dt[1]), 4) \o <<"-">> \o ZeroPad(Decimal(dt[2]), 2)
    \o <<"-">> \o ZeroPad(Decimal(dt[3]), 2)
StrfMonth(dt) == ZeroPad(Decimal(dt[1]), 4) \o <<"-">> \o ZeroPad(Decimal(dt[2]), 2)
StrfWeek(dt) ==
  LET weekday == (Ordinal(dt) + 6) % 7
      yday == Ordinal(dt) - Ordinal(<<dt[1], 1, 1>>)
  IN ZeroPad(Decimal(dt[1]), 4) \o <<"-", "W">> \o ZeroPad(Decimal((yday + 7 - weekday) \div 7), 2)

\* timedelta(days=30) and timedelta(weeks=12), in days.
DAILY_WINDOW_DAYS == 30
WEEKLY_WINDOW_DAYS == 84
\* monthly_series[-12:]
MONTHLY_LATEST == 12
\* change_pct > 5 / change_pct < -5
TREND_BAND_PERCENT == 5

\* The one member of a singleton set.  The({F(x) : x \in {e}}) is F(e) with
\* e evaluated once, however often F uses it.
The(S) == CHOOSE x \in S : TRUE

(***************************************************************************)
(* Python float: IEEE 754 binary64, round to nearest, ties to even.  The   *)
(* monthly totals and change_pct are floats, and change_pct is compared    *)
(* with 5 and -5 as a float.  A natural number of any size is the sequence *)
(* of its digits in base 2^15, least significant first, with no leading    *)
(* zero digit; a float is <<sign, m, e>>, its value sign * m * 2^e with    *)
(* 2^52 <= m < 2^53, or m = 0.  The values here are far from the subnormal *)
(* and the overflow range.                                                 *)
(***************************************************************************)
Base == 32768
BaseBits == 15
MantissaBits == 53

RECURSIVE TwoTo(_)
TwoTo(j) == IF j = 0 THEN 1 ELSE 2 * TwoTo(j - 1)

RECURSIVE NatOf(_)
NatOf(n) == IF n = 0 THEN <<>> ELSE <<n % Base>> \o NatOf(n \div Base)

Digit(a, i) == IF i <= Len(a) THEN a[i] ELSE 0

\* a without its leading zero digits.
RECURSIVE Trim(_)
Trim(a) ==
  IF Len(a) = 0 \/ a[Len(a)] # 0 THEN a ELSE Trim(SubSeq(a, 1, Len(a) - 1))

\* The digits of a + b + carry from the i-th on.
RECURSIVE AddFrom(_, _, _, _)
AddFrom(a, b, i, carry) ==
  IF i > Len(a) /\ i > Len(b) THEN (IF carry = 0 THEN <<>> ELSE <<carry>>)
  ELSE <<(Digit(a, i) + Digit(b, i) + carry) % Base>>
         \o AddFrom(a, b, i + 1, (Digit(a, i) + Digit(b, i) + carry) \div Base)

NatAdd(a, b) == AddFrom(a, b, 1, 0)

\* The digits of a - b - borrow from the i-th on, for a >= b.
RECURSIVE SubFrom(_, _, _, _)
SubFrom(a, b, i, borrow) ==
  IF i > Len(a) THEN <<>>
  ELSE <<(a[i] - Digit(b, i) - borrow + Base) % Base>>
         \o SubFrom(a, b, i + 1, IF a[i] - Digit(b, i) - borrow < 0 THEN 1 ELSE 0)

NatSub(a, b) == Trim(SubFrom(a, b, 1, 0))

\* a < b
NatLess(a, b) ==
  \/ Len(a) < Len(b)
  \/ /\ Len(a) = Len(b)
     /\ \E i \in 1..Len(a) : a[i] < b[i] /\ \A j \in (i + 1)..Len(a) : a[j] = b[j]

\* The digits of a * k + carry from the i-th on, for 0 < k < Base.
RECURSIVE MulFrom(_, _, _, _)
MulFrom(a, k, i, carry) ==
  IF i > Len(a) THEN (IF carry = 0 THEN <<>> ELSE <<carry>>)
  ELSE <<(a[i] * k + carry) % Base>> \o MulFrom(a, k, i + 1, (a[i] * k + carry) \div Base)

NatMul(a, k) == MulFrom(a, k, 1, 0)

\* a * 2^k
ShiftLeft(a, k) ==
  IF Len(a) = 0 THEN a
  ELSE [i \in 1..(k \div BaseBits) |-> 0] \o NatMul(a, TwoTo(k % BaseBits))

\* The number of binary digits of a.
RECURSIVE BitLength(_)
BitLength(n) == IF n = 0 THEN 0 ELSE 1 + BitLength(n \div 2)

NatBitLength(a) ==
  IF Len(a) = 0 THEN 0 ELSE BaseBits * (Len(a) - 1) + BitLength(a[Len(a)])

\* The i-th binary digit of a, the least significant being the 0-th.
Bit(a, i) == (Digit(a, i \div BaseBits + 1) \div TwoTo(i % BaseBits)) % 2

\* One step of the long division by b: the next binary digit of the dividend
\* is brought down to the remainder qr[2], and the quotient qr[1] gets its
\* next digit.
DivStep(qr, bit, b) ==
  The({IF NatLess(r, b) THEN <<NatMul(qr[1], 2), r>>
       ELSE <<NatAdd(NatMul(qr[1], 2), <<1>>), NatSub(r, b)>> :
         r \in {NatAdd(NatMul(qr[2], 2), NatOf(bit))}})

\* The long division of the binary digits hi down to lo of a, continuing
\* from qr; the digits are halved rather than taken one after the other.
RECURSIVE DivLoop(_, _, _, _, _)
DivLoop(a, b, hi, lo, qr) ==
  IF hi < lo THEN qr
  ELSE IF hi = lo THEN DivStep(qr, Bit(a, hi), b)
  ELSE The({DivLoop(a, b, mid - 1, lo, high) :
              high \in {DivLoop(a, b, hi, half, qr) : half \in {(hi + lo + 1) \div 2}},
              mid \in {(hi + lo + 1) \div 2}})

\* <<a div b, a mod b>> for b > 0.
DivMod(a, b) ==
  The({DivLoop(x, y, NatBitLength(x) - 1, 0, start) :
         x \in {a}, y \in {b}, start \in {<<<<>>, <<>>>>}})

\* The float nearest to q * 2^(-shift) + (a fraction of the last place that
\* is 0 exactly when `exact`), for a q of more than 54 binary digits: <<m, e>>.
RoundQuotient(q, exact, shift) ==
  LET drop == NatBitLength(q) - MantissaBits
      kept == DivMod(q, <<TwoTo(drop)>>)
      rest == Digit(kept[2], 1)
      half == TwoTo(drop - 1)
      up == \/ rest > half
            \/ rest = half /\ ~exact
            \/ rest = half /\ exact /\ Digit(kept[1], 1) % 2 = 1
      m == IF up THEN NatAdd(kept[1], <<1>>) ELSE kept[1]
  IN IF NatBitLength(m) > MantissaBits
     THEN <<DivMod(m, <<2>>)[1], drop - shift + 1>>
     ELSE <<m, drop - shift>>

\* The float nearest to n / d, from the quotient of n * 2^shift by d.
RoundShifted(n, d, shift) ==
  The({RoundQuotient(qr[1], Len(qr[2]) = 0, shift) :
         qr \in {IF shift >= 0 THEN DivMod(ShiftLeft(n, shift), d)
                 ELSE DivMod(n, ShiftLeft(d, 0 - shift))}})

\* The float nearest to n / d, for n >= 0 and d > 0: <<m, e>>.
RoundRatioToFloat(n, d) ==
  IF Len(n) = 0 THEN <<n, 0>>
  ELSE The({RoundShifted(x, y, MantissaBits + 2 - (NatBitLength(x) - NatBitLength(y))) :
              x \in {n}, y \in {d}})

\* The float nearest to mag * 2^e, with a sign.
FloatOfScaled(sign, mag, e) ==
  The({<<IF Len(me[1]) = 0 THEN 1 ELSE sign, me[1], me[2]>> :
         me \in {IF e >= 0 THEN RoundRatioToFloat(ShiftLeft(mag, e), <<1>>)
                 ELSE RoundRatioToFloat(mag, ShiftLeft(<<1>>, 0 - e))}})

\* The float of an amount of so many cents: the float nearest to cents / 100,
\* which is what round(v, 2) returns.
FloatOfCents(cents) ==
  The({<<IF cents < 0 THEN 0 - 1 ELSE 1, me[1], me[2]>> :
         me \in {RoundRatioToFloat(NatOf(IF cents < 0 THEN 0 - cents ELSE cents),
                                   NatOf(100))}})

\* x - y
FloatSub(x, y) ==
  LET e == IF x[3] < y[3] THEN x[3] ELSE y[3]
      a == ShiftLeft(x[2], x[3] - e)
      b == ShiftLeft(y[2], y[3] - e)
  IN IF x[1] # y[1] THEN FloatOfScaled(x[1], NatAdd(a, b), e)
     ELSE IF NatLess(a, b) THEN FloatOfScaled(0 - x[1], NatSub(b, a), e)
     ELSE FloatOfScaled(x[1], NatSub(a, b), e)

\* abs(x)
FloatAbs(x) == <<1, x[2], x[3]>>

\* x / y, for y # 0
FloatDiv(x, y) ==
  The({<<IF Len(me[1]) = 0 THEN 1 ELSE x[1] * y[1], me[1], me[2]>> :
         me \in {IF x[3] >= y[3]
                 THEN RoundRatioToFloat(ShiftLeft(x[2], x[3] - y[3]), y[2])
                 ELSE RoundRatioToFloat(x[2], ShiftLeft(y[2], y[3] - x[3]))}})

\* x * k for an int k with 0 < k < 2^15 (the int becomes the float of k)
FloatMulInt(x, k) == FloatOfScaled(x[1], NatMul(x[2], k), x[3])

\* x > k and x < k for an int k
FloatGreaterInt(x, k) ==
  IF x[1] < 0 THEN k < 0 /\ NatLess(ShiftLeft(x[2], IF x[3] > 0 THEN x[3] ELSE 0),
                                    ShiftLeft(NatOf(0 - k), IF x[3] < 0 THEN 0 - x[3] ELSE 0))
  ELSE k < 0 \/ NatLess(ShiftLeft(NatOf(k), IF x[3] < 0 THEN 0 - x[3] ELSE 0),
                        ShiftLeft(x[2], IF x[3] > 0 THEN x[3] ELSE 0))
FloatLessInt(x, k) ==
  IF x[1] < 0 THEN k >= 0 \/ NatLess(ShiftLeft(NatOf(0 - k), IF x[3] < 0 THEN 0 - x[3] ELSE 0),
                                     ShiftLeft(x[2], IF x[3] > 0 THEN x[3] ELSE 0))
  ELSE k > 0 /\ NatLess(ShiftLeft(x[2], IF x[3] > 0 THEN x[3] ELSE 0),
                        ShiftLeft(NatOf(k), IF x[3] < 0 THEN 0 - x[3] ELSE 0))

\* ((c - p) / abs(p)) * 100 for floats c and p # 0
ChangePctOf(c, p) ==
  The({The({FloatMulInt(q, 100) : q \in {FloatDiv(d, FloatAbs(p))}}) :
         d \in {FloatSub(c, p)}})

\* change_pct = ((current_val - previous_val) / abs(previous_val)) * 100,
\* for totals in cents; 0 when previous_val is 0.
ChangePct(current_val, previous_val) ==
  IF previous_val = 0 THEN <<1, <<>>, 0>>
  ELSE The({ChangePctOf(c, p) :
              c \in {FloatOfCents(current_val)}, p \in {FloatOfCents(previous_val)}})

\* trend_direction
TrendDirection(current_val, previous_val) ==
  The({IF FloatGreaterInt(change_pct, TREND_BAND_PERCENT) THEN "increasing"
       ELSE IF FloatLessInt(change_pct, 0 - TREND_BAND_PERCENT) THEN "decreasing"
       ELSE "stable" :
         change_pct \in {ChangePct(current_val, previous_val)}})

\* A defaultdict(float) filled by `map[key] += amount` over data, then
\* sorted(map.items()): (key, total) pairs ascending by key.
\* keys[k] is the key of data[k].  round(v, 2) is exact on cents.
TotalsOf(data, keys, ks) ==
  LET total(key) == Sum([k \in 1..Len(data) |-> IF keys[k] = key THEN data[k].amount ELSE 0])
  IN SortedByStr([k \in 1..Len(ks) |-> <<ks[k], total(ks[k])>>], ks)

SortedTotals(data, keys) == The({TotalsOf(data, keys, ks) : ks \in {Distinct(keys)}})

\* round(n / d, 0) for d > 0: to the nearest integer, ties to even.  (The code
\* rounds the float change_pct to one decimal; here the exact ratio is rounded.)
RoundRatio(n, d) ==
  LET q == IF n >= 0 THEN n \div d ELSE 0 - ((0 - n + d - 1) \div d)
      r == n - q * d
  IN IF 2 * r > d \/ (2 * r = d /\ q % 2 # 0) THEN q + 1 ELSE q

EmptyTrends ==
  [trend |-> "stable", change_percentage |-> 0, current_month_total |-> 0,
   previous_month_total |-> 0, daily |-> <<>>, weekly |-> <<>>, monthly |-> <<>>]

\* The transactions analyze_trends keeps, as (date, amount): those of an expense
\* category whose date parses.
ParsedOf(included) ==
  LET dates == [k \in 1..Len(included) |-> ParseDate(Chars(included[k].date))]
  IN Filter([k \in 1..Len(included) |-> [date |-> dates[k], amount |-> included[k].amount]],
            [k \in 1..Len(included) |-> dates[k] # NoDate])

\* anchor_date = parsed_data[-1]['date'], of the sorted parsed_data.
AnchorDate_mut(parsed_data) == parsed_data[1].date
AnchorDate(parsed_data) == parsed_data[Len(parsed_data)].date

\* [p for p in parsed_data if p['date'] >= anchor_date - timedelta(days)]
Since(parsed_data, days) ==
  LET anchor_date == AnchorDate(parsed_data)
  IN Filter(parsed_data,
            [k \in 1..Len(parsed_data) |->
               Ordinal(parsed_data[k].date) >= Ordinal(anchor_date) - days])

DailySeries(data) ==
  The({SortedTotals(data, keys) : keys \in {[k \in 1..Len(data) |-> StrfDay(data[k].date)]}})
WeeklySeries(data) ==
  The({SortedTotals(data, keys) : keys \in {[k \in 1..Len(data) |-> StrfWeek(data[k].date)]}})
MonthlySeries_mut(data) ==
  The({SortedTotals(recent, [k \in 1..Len(recent) |-> StrfMonth(recent[k].date)]) :
         recent \in {Since(data, WEEKLY_WINDOW_DAYS)}})
MonthlySeries(data) ==
  The({SortedTotals(data, keys) : keys \in {[k \in 1..Len(data) |-> StrfMonth(data[k].date)]}})

\* The result dict, from the three sorted series.
TrendsOf(daily, weekly, monthly) ==
  LET two == Len(monthly) >= 2
      current_val == IF two THEN monthly[Len(monthly)][2] ELSE monthly[1][2]
      previous_val == IF two THEN monthly[Len(monthly) - 1][2] ELSE 0
      abs_previous == IF previous_val < 0 THEN 0 - previous_val ELSE previous_val
      \* change_pct = num / abs_previous, 0 when previous_val is 0
      num == (current_val - previous_val) * 100
  IN [trend |-> TrendDirection(current_val, previous_val),
      \* round(change_pct, 1), in tenths of a percent
      change_percentage |->
        IF previous_val # 0 THEN RoundRatio(num * 10, abs_previous) ELSE 0,
      current_month_total |-> current_val,
      previous_month_total |-> previous_val,
      daily |-> [k \in 1..Len(daily) |-> [date |-> daily[k][1], amount |-> daily[k][2]]],
      weekly |-> [k \in 1..Len(weekly) |-> [week |-> weekly[k][1], amount |-> weekly[k][2]]],
      monthly |-> LastN([k \in 1..Len(monthly) |->
                           [month |-> monthly[k][1], amount |-> monthly[k][2]]],
                        MONTHLY_LATEST)]

\* parsed_data.sort(key=lambda x: x['date']) and what follows it.
TrendsOfParsed(parsed) ==
  IF Len(parsed) = 0 THEN EmptyTrends
  ELSE The(UNION {
         {TrendsOf(daily, weekly, monthly) :
            daily \in {DailySeries(Since(parsed_data, DAILY_WINDOW_DAYS))},
            weekly \in {WeeklySeries(Since(parsed_data, WEEKLY_WINDOW_DAYS))},
            monthly \in {MonthlySeries(parsed_data)}} :
         parsed_data \in {SortedByInt(parsed, [k \in 1..Len(parsed) |->
                                                 Ordinal(parsed[k].date)])}})

\* An empty table returns the empty result at once; so does a table with no
\* row that is kept.
analyze_trends(table) ==
  The({TrendsOfParsed(parsed) :
         parsed \in {ParsedOf(included) :
                       included \in {Filter(table, [k \in 1..Len(table) |->
                                       table[k].category \notin NON_EXPENSE_CATEGORIES])}}})

(***************************************************************************)
(* json.dumps / json.loads.  A Python value carries its type (py) beside   *)
(* its content (v); JSON text is either the serialisation of a value       *)
(* (kind "json", text the value) or verbatim characters (kind "raw", text  *)
(* a string).  The values the tools produce are dicts and lists of str,    *)
(* float and None, which a dumps/loads round trip gives back unchanged.    *)
(***************************************************************************)
PyDict(v) == [py |-> "dict", v |-> v]
PyList(v) == [py |-> "list", v |-> v]
PyStr(s) == [py |-> "str", v |-> s]
\* A value json.dumps cannot serialise (a set, a datetime, ...).
PySet(v) == [py |-> "set", v |-> v]

\* isinstance(value, str)
IsStr(value) == value.py = "str"

\* Whether json.dumps(value) raises TypeError.
DumpsTypeError(value) == value.py \notin {"dict", "list", "str"}

\* value_json = json.dumps(value) if not isinstance(value, str) else value
ValueJson(value) ==
  IF IsStr(value) THEN [kind |-> "raw", text |-> value.v]
  ELSE [kind |-> "json", text |-> value.v]

\* `insight.value` as a condition: the empty string is falsy.
Truthy(value_json) == ~(value_json.kind = "raw" /\ value_json.text = "")

\* Whether json.loads(text) raises JSONDecodeError.  Of verbatim characters
\* only a run of digits is read as JSON here (a number); the model stores no
\* verbatim text that spells another JSON document.
LoadsDecodeError(value_json) ==
  value_json.kind = "raw" /\ ~IsInt(Chars(value_json.text))

\* json.loads(text), where it does not raise.
json_loads(value_json) ==
  IF value_json.kind = "raw" THEN ToInt(Chars(value_json.text)) ELSE value_json.text

(***************************************************************************)
(* save_insight(insight_type, key, value, transaction_ids, confidence)     *)
(*   pc: idle | begin (open the session, SELECT the existing row, build    *)
(*       value_json and expires_at, UPDATE or add in the session) |        *)
(*       commit (flush and COMMIT) | returned | raised                     *)
(*   One call record per caller: the pipeline, and a direct caller.        *)
(*   confidence is in hundredths.                                          *)
(***************************************************************************)

\* ",".join(map(str, transaction_ids)) if transaction_ids else None
\* The joined text is kept as the sequence of ids it spells.
TxIdsStr(ids) == IF Len(ids) = 0 THEN <<>> ELSE ids

DBInsight(args, value_json, computed_at, expires_at) ==
  [insight_type |-> args.insight_type, key |-> args.key, value |-> value_json,
   transaction_ids |-> TxIdsStr(args.transaction_ids), confidence |-> args.confidence,
   computed_at |-> computed_at, expires_at |-> expires_at]

InsightKey(row) == <<row.insight_type, row.key>>

\* session.query(DBInsight).filter(insight_type == ..., key == ...).first():
\* the position of the first matching row, 0 when there is none.
FirstInsight(table, type, key) ==
  IF \E k \in 1..Len(table) : InsightKey(table[k]) = <<type, key>>
  THEN CHOOSE k \in 1..Len(table) :
         /\ InsightKey(table[k]) = <<type, key>>
         /\ \A j \in 1..(k - 1) : InsightKey(table[j]) # <<type, key>>
  ELSE 0



\* except: session.rollback(); raise e; finally: session.close()
SiFail(call, e) ==
  [Retry(call, e) EXCEPT !.existing = 0, !.value_json = SiIdle.value_json,
                         !.computed_at = 0, !.expires_at = 0]

\* The call record as the call is made.
SiCalled(args) == [SiIdle EXCEPT !.pc = "begin", !.args = args, !.attempt = 1]

\* expires_at = datetime.utcnow() + timedelta(days=INSIGHTS_TTL_DAYS)
ExpiresAt(t) == t + INSIGHTS_TTL_DAYS

\* Lines 373-400 of one attempt, up to session.commit().
SiBegin(c) ==
  /\ si[c].pc = "begin"
  /\ \/ IF DumpsTypeError(si[c].args.value)
        THEN si' = [si EXCEPT ![c] = SiFail(@, "TypeError")]
        ELSE si' = [si EXCEPT ![c] =
                      [@ EXCEPT !.pc = "commit",
                                !.existing = FirstInsight(insights, si[c].args.insight_type,
                                                          si[c].args.key),
                                !.value_json = ValueJson(si[c].args.value),
                                !.computed_at = now,
                                !.expires_at = ExpiresAt(now)]]
     \/ si' = [si EXCEPT ![c] = SiFail(@, "OperationalError")]
  /\ UNCHANGED <<transactions, statements, insights, now, st, sm, pl, tc>>

\* The table after the attempt's UPDATE (value, transaction_ids, confidence,
\* computed_at and expires_at of the existing row) or INSERT (computed_at is
\* the column default, datetime.utcnow() at the flush).
SiWrite(table, call, t) ==
  IF call.existing # 0
  THEN [table EXCEPT ![call.existing] =
          DBInsight(call.args, call.value_json, call.computed_at, call.expires_at)]
  ELSE Append(table, DBInsight(call.args, call.value_json, t, call.expires_at))

\* _insight_type_key_uc rejects the INSERT of a pair that is already stored.
InsightsIntegrityError_mut(table, call) == FALSE
InsightsIntegrityError(table, call) ==
  /\ call.existing = 0
  /\ ViolatesUnique({InsightKey(table[k]) : k \in 1..Len(table)},
                    <<<<call.args.insight_type, call.args.key>>>>)

\* session.commit()
SiCommit(c) ==
  /\ si[c].pc = "commit"
  /\ \/ IF InsightsIntegrityError(insights, si[c])
        THEN /\ si' = [si EXCEPT ![c] = SiFail(@, "IntegrityError")]
             /\ UNCHANGED insights
        ELSE /\ insights' = SiWrite(insights, si[c], now)
             /\ si' = [si EXCEPT ![c] = [SiIdle EXCEPT !.pc = "returned"]]
     \/ /\ si' = [si EXCEPT ![c] = SiFail(@, "OperationalError")]
        /\ UNCHANGED insights
  /\ UNCHANGED <<transactions, statements, now, st, sm, pl, tc>>

(***************************************************************************)
(* get_cached_insights()                                                   *)
(***************************************************************************)
\* session.query(DBInsight).filter(DBInsight.expires_at > now).all()
Unexpired_mut(table, t) == Filter(table, [k \in 1..Len(table) |-> table[k].expires_at >= t])
Unexpired(table, t) == Filter(table, [k \in 1..Len(table) |-> table[k].expires_at > t])

\* Whether the loop over the rows raises: json.loads is not guarded.
CachedDecodeError(rows) ==
  \E k \in 1..Len(rows) : Truthy(rows[k].value) /\ LoadsDecodeError(rows[k].value)

\* value = json.loads(insight.value) if insight.value else None
Loaded(row) == IF Truthy(row.value) THEN json_loads(row.value) ELSE None

\* The last row of a type, the one whose assignment to result[...] stays;
\* 0 when the type has no row.
LastOfType(rows, type) ==
  IF \E k \in 1..Len(rows) : rows[k].insight_type = type
  THEN CHOOSE k \in 1..Len(rows) :
         /\ rows[k].insight_type = type
         /\ \A j \in (k + 1)..Len(rows) : rows[j].insight_type # type
  ELSE 0

\* datetime.isoformat()
isoformat(t) == ToString(t)

\* result[name] after the loop, for a type that is assigned whole; the empty
\* dict {} and the empty list [] are both <<>>.
CachedValue(rows, type) ==
  IF LastOfType(rows, type) # 0 THEN Loaded(rows[LastOfType(rows, type)]) ELSE <<>>

\* result["merchants"]: a dict as (key, value) pairs in insertion order, a
\* later row of the same key replacing the value.
CachedMerchants(rows) ==
  LET ms == Filter(rows, [k \in 1..Len(rows) |-> rows[k].insight_type = "merchant_enrichment"])
      keys == Distinct([k \in 1..Len(ms) |-> ms[k].key])
      last(key) == CHOOSE k \in 1..Len(ms) :
                     ms[k].key = key /\ \A j \in (k + 1)..Len(ms) : ms[j].key # key
  IN [k \in 1..Len(keys) |-> <<keys[k], Loaded(ms[last(keys[k])])>>]

\* The dict get_cached_insights returns for a non-empty list of rows.
CachedReport(rows) ==
  [category_summary |-> CachedValue(rows, "category_summary"),
   subscriptions |-> CachedValue(rows, "subscriptions"),
   trends |-> CachedValue(rows, "trends"),
   anomalies |-> CachedValue(rows, "anomalies"),
   merchants |-> CachedMerchants(rows),
   computed_at |-> IF LastOfType(rows, "category_summary") # 0
                   THEN isoformat(rows[LastOfType(rows, "category_summary")].computed_at)
                   ELSE None]

(***************************************************************************)
(* run_full_insights_pipeline(force_refresh)                               *)
(*   pc: idle | check (get_cached_insights) | tool (tool k runs) |         *)
(*       save (save_insight of tool k's result is running) | returned |    *)
(*       raised                                                            *)
(*   results: the tools' results so far; log: the tools run and the        *)
(*   results persisted so far, in order.                                   *)
(*   hit: whether the cache check found an unexpired row.                  *)
(***************************************************************************)
INSIGHT_TYPES_mut == <<"anomalies", "trends", "subscriptions", "category_summary">>
INSIGHT_TYPES == <<"category_summary", "subscriptions", "trends", "anomalies">>

\* The k-th tool's result on the stored transactions.
Tool(k, table) ==
  CASE k = 1 -> PyDict(summarize_by_category(table))
    [] k = 2 -> PyList(detect_subscriptions(table))
    [] k = 3 -> PyDict(analyze_trends(table))
    [] k = 4 -> PyList(detect_anomalies(table))



\* The dict returned after a recompute.
ComputedReport(results, t) ==
  [category_summary |-> results[1].v, subscriptions |-> results[2].v,
   trends |-> results[3].v, anomalies |-> results[4].v, computed_at |-> isoformat(t)]

\* The call record as the recompute starts (line 467).
Recompute(call) == [call EXCEPT !.pc = "tool", !.k = 1]

CallPipeline(force) ==
  /\ Ended(pl)
  /\ pl' = IF force THEN Recompute([PlIdle EXCEPT !.force = TRUE])
           ELSE [PlIdle EXCEPT !.pc = "check"]
  /\ st' = [d \in Callers |-> StForget(st[d])]
  /\ sm' = SmForget(sm)
  /\ si' = [d \in SiCallers |-> SiForget(si[d])]
  /\ UNCHANGED <<transactions, statements, insights, now, tc>>

\* cached = get_cached_insights(); if cached: return cached
PlCheck ==
  /\ pl.pc = "check"
  /\ \/ LET rows == Unexpired(insights, now)
            read == [pl EXCEPT !.hit = Len(rows) > 0]
        IN pl' = IF Len(rows) = 0 THEN Recompute(read)
                 ELSE IF CachedDecodeError(rows)
                      THEN [read EXCEPT !.pc = "raised", !.error = "JSONDecodeError"]
                      ELSE [read EXCEPT !.pc = "returned", !.report = CachedReport(rows)]
     \/ pl' = [pl EXCEPT !.pc = "raised", !.error = "OperationalError"]
  /\ UNCHANGED <<transactions, statements, insights, now, st, sm, si, tc>>

\* Tool k runs, and save_insight(INSIGHT_TYPES[k], "all", result) is called;
\* or the tool's query raises, which ends the pipeline.
PlTool ==
  /\ pl.pc = "tool"
  /\ \/ /\ pl' = [pl EXCEPT !.pc = "save",
                            !.results = Append(@, Tool(pl.k, transactions)),
                            !.log = Append(@, <<"tool", pl.k>>)]
        /\ si' = [si EXCEPT !["pipeline"] =
                    SiCalled(InsightArgs(INSIGHT_TYPES[pl.k], "all",
                                         Tool(pl.k, transactions), <<>>, 100))]
     \/ /\ pl' = [pl EXCEPT !.pc = "raised", !.error = "OperationalError",
                            !.log = Append(@, <<"tool", pl.k>>)]
        /\ UNCHANGED si
  /\ UNCHANGED <<transactions, statements, insights, now, st, sm, tc>>

\* save_insight came back: the next tool, the final return, or its exception.
PlSaved_mut(call, t) ==
  IF call.k = Len(INSIGHT_TYPES)
  THEN [call EXCEPT !.pc = "returned", !.log = Append(@, <<"saved", call.k>>),
                    !.report = ComputedReport(call.results, t)]
  ELSE [call EXCEPT !.pc = "tool", !.k = @ + 2, !.log = Append(@, <<"saved", call.k>>)]
PlSaved(call, t) ==
  IF call.k = Len(INSIGHT_TYPES)
  THEN [call EXCEPT !.pc = "returned", !.log = Append(@, <<"saved", call.k>>),
                    !.report = ComputedReport(call.results, t)]
  ELSE [call EXCEPT !.pc = "tool", !.k = @ + 1, !.log = Append(@, <<"saved", call.k>>)]

PlAfterSave ==
  /\ pl.pc = "save"
  /\ Ended(si["pipeline"])
  /\ pl' = IF si["pipeline"].pc = "returned" THEN PlSaved(pl, now)
           ELSE [pl EXCEPT !.pc = "raised", !.error = si["pipeline"].error]
  /\ si' = [si EXCEPT !["pipeline"] = SiIdle]
  /\ UNCHANGED <<transactions, statements, insights, now, st, sm, tc>>

(***************************************************************************)
(* A direct caller of save_insight, and the clock.                         *)
(***************************************************************************)
D1 == InsightArgs("category_summary", "all", PyDict(<<<<"Dining", 100>>>>), <<1, 2>>, 90)
D2 == InsightArgs("merchant_enrichment", "UBER", PyDict([type |-> "Transportation"]), <<>>, 80)
D3 == InsightArgs("merchant_enrichment", "UBER", PyStr("hello"), <<>>, 100)
D4 == InsightArgs("category_summary", "all", PySet(<<1>>), <<>>, 100)
InsightPool == <<D1, D2, D3, D4>>
\* The calls that store a merchant's row.
MerchantCalls == <<D2, D3>>

CallSaveInsight(args) ==
  /\ Ended(si["direct"])
  /\ si' = [si EXCEPT !["direct"] = SiCalled(args)]
  /\ st' = [d \in Callers |-> StForget(st[d])]
  /\ sm' = SmForget(sm)
  /\ pl' = PlForget(pl)
  /\ UNCHANGED <<transactions, statements, insights, now, tc>>

\* Time passes, ClockStep days at a time.
Tick ==
  /\ now + ClockStep <= MaxNow
  /\ now' = now + ClockStep
  /\ UNCHANGED <<transactions, statements, insights, st, sm, si, pl, tc>>

(***************************************************************************)
(* Specifications.                                                         *)
(***************************************************************************)

Init ==
  /\ transactions = <<>>
  /\ statements = <<>>
  /\ insights = <<>>
  /\ now = 0
  /\ st = [c \in Callers |-> StIdle]
  /\ sm = SmIdle
  /\ si = [c \in SiCallers |-> SiIdle]
  /\ pl = PlIdle
  /\ tc = TcIdle

\* No storage call is in progress: the next call is made by a caller that
\* waited for the previous one to end.
Quiet ==
  /\ \A c \in Callers : Ended(st[c])
  /\ Ended(sm)
  /\ \A c \in SiCallers : Ended(si[c])
  /\ Ended(pl)

\* save_transactions called again and again by one ingesting caller.
NextStore ==
  \/ \E batch \in Batches : CallSaveTransactions(1, batch)
  \/ StBegin(1)
  \/ StLoop(1)
  \/ StCommit(1)

SpecStore == Init /\ [][NextStore]_vars

\* The four functions called one after the other by one client, each call
\* made when the previous one has ended.
ClientBatches == {<<T1>>, <<T1, T3>>, <<T3, NotATransaction>>}
ClientMetas == {M1, NoMeta}
ClientInsights == <<D1, D4>>

Next ==
  \/ \E batch \in ClientBatches : Quiet /\ CallSaveTransactions(1, batch)
  \/ StBegin(1)
  \/ StLoop(1)
  \/ StCommit(1)
  \/ \E meta \in ClientMetas : Quiet /\ CallSaveStatementMetadata("a.pdf", meta)
  \/ SmBegin
  \/ SmCommit
  \/ \E n \in 1..Len(ClientInsights) : Quiet /\ CallSaveInsight(ClientInsights[n])
  \/ \E c \in SiCallers : SiBegin(c)
  \/ \E c \in SiCallers : SiCommit(c)
  \/ \E force \in BOOLEAN : Quiet /\ CallPipeline(force)
  \/ PlCheck
  \/ PlTool
  \/ PlAfterSave

Spec == Init /\ [][Next]_vars

\* The insight pipeline and a caller that stores merchant rows, one call at a
\* time while time passes, over a transactions table that ingestion left
\* behind.
StoredTable == <<DBTransaction(T1), DBTransaction(T3)>>

InitInsights ==
  /\ transactions = StoredTable
  /\ statements = <<>>
  /\ insights = <<>>
  /\ now = 0
  /\ st = [c \in Callers |-> StIdle]
  /\ sm = SmIdle
  /\ si = [c \in SiCallers |-> SiIdle]
  /\ pl = PlIdle
  /\ tc = TcIdle

NextInsights ==
  \/ \E force \in BOOLEAN : Ended(si["direct"]) /\ CallPipeline(force)
  \/ PlCheck
  \/ PlTool
  \/ PlAfterSave
  \/ \E n \in 1..Len(MerchantCalls) : Ended(pl) /\ CallSaveInsight(MerchantCalls[n])
  \/ \E c \in SiCallers : SiBegin(c)
  \/ \E c \in SiCallers : SiCommit(c)
  \/ Tick

SpecInsights == InitInsights /\ [][NextInsights]_vars

\* Forced pipeline runs and a direct caller that stores the pair the pipeline's
\* first step stores, running side by side while time passes.
NextUpsert ==
  \/ CallPipeline(TRUE)
  \/ PlTool
  \/ PlAfterSave
  \/ CallSaveInsight(D1)
  \/ \E c \in SiCallers : SiBegin(c)
  \/ \E c \in SiCallers : SiCommit(c)
  \/ Tick

SpecUpsert == InitInsights /\ [][NextUpsert]_vars

(***************************************************************************)
(* Claims about save_transactions (SpecStore).                             *)
(***************************************************************************)
\* The identity key a Transaction is stored under.
StoredKey(tx) == UniqueKey(DBTransaction(tx))

StoredKeys(table) == {UniqueKey(r) : r \in Range(table)}

\* A batch of Transactions with pairwise distinct identity keys.
DistinctBatch(batch) ==
  /\ \A i \in 1..Len(batch) : IsTransaction(batch[i])
  /\ \A i, j \in 1..Len(batch) : i < j => StoredKey(batch[i]) # StoredKey(batch[j])

\* C1: Idempotence of save_transactions.  When a call returns and the caller
\* makes the same call again, the second call returns 0 and leaves the number
\* of stored rows what it was after the first call; the second call, and any
\* call with pairwise distinct identity keys, can fail only on a storage outage.
C1_Idempotent ==
  /\ (st[1].pc = "returned" /\ st[1].repeat)
       => (st[1].result = 0 /\ Len(transactions) = Len(st[1].before))
  /\ (st[1].pc = "raised" /\ (st[1].repeat \/ DistinctBatch(st[1].batch)))
       => (st[1].error = "OperationalError" /\ Len(transactions) = Len(st[1].before))

C1_Witness ==
  /\ st[1].pc = "returned"
  /\ st[1].repeat
  /\ Len(st[1].batch) = 2
  /\ DistinctBatch(st[1].batch)
  /\ StoredKeys(transactions) = {StoredKey(st[1].batch[1]), StoredKey(st[1].batch[2])}

\* C2: no two stored transaction rows have the same
\* (date, description, amount, source_file).
C2_UniqueRows ==
  \A i, j \in 1..Len(transactions) :
    i < j => UniqueKey(transactions[i]) # UniqueKey(transactions[j])

\* A call had two records of one key in its session, failed on the constraint
\* in all its attempts, and rows are stored.
C2_Witness ==
  /\ st[1].pc = "raised"
  /\ st[1].error = "IntegrityError"
  /\ Len(transactions) >= 2

\* C3: dedup key sensitivity and first writer wins.  When a call returns, every
\* row stored before it is still there unchanged; a record whose key was stored
\* added nothing; every record whose key was not stored is a new row carrying the
\* record's fields, and the returned count is the number of those records.
C3_DedupFirstWriterWins ==
  st[1].pc = "returned" =>
    LET before == st[1].before
        batch == st[1].batch
        fresh == {i \in 1..Len(batch) : StoredKey(batch[i]) \notin StoredKeys(before)}
    IN /\ Len(transactions) >= Len(before)
       /\ \A p \in 1..Len(before) : transactions[p] = before[p]
       /\ \A i \in 1..Len(batch) :
            IF i \in fresh
            THEN \E p \in (Len(before) + 1)..Len(transactions) :
                   transactions[p] = DBTransaction(batch[i])
            ELSE \A p \in (Len(before) + 1)..Len(transactions) :
                   UniqueKey(transactions[p]) # StoredKey(batch[i])
       /\ st[1].result = Cardinality(fresh)

\* One call met both cases: T2 has the key of the stored T1 and another category
\* (skipped, the stored category stays), T3 differs from T1 only in amount
\* (inserted).
C3_Witness ==
  /\ st[1].pc = "returned"
  /\ st[1].batch = <<T2, T3>>
  /\ st[1].before = <<DBTransaction(T1)>>
  /\ st[1].result = 1
  /\ transactions = <<DBTransaction(T1), DBTransaction(T3)>>

\* C4: batch atomicity.  While a call runs and when it has raised, the table is
\* what it was before the call; when it has returned n, the table is the table
\* before the call followed by exactly n new rows.
C4_BatchAtomic ==
  /\ st[1].pc \in {"begin", "loop", "commit", "raised"} => transactions = st[1].before
  /\ st[1].pc = "returned" =>
       /\ Len(transactions) = Len(st[1].before) + st[1].result
       /\ SubSeq(transactions, 1, Len(st[1].before)) = st[1].before

\* A call that had added a row to its session ended by raising.
C4_Witness ==
  /\ st[1].pc = "raised"
  /\ st[1].batch = <<T3, NotATransaction>>
  /\ st[1].before = <<DBTransaction(T1)>>
  /\ transactions = <<DBTransaction(T1)>>

(***************************************************************************)
(* Claims about the four functions called one after the other (Spec).      *)
(***************************************************************************)
\* The call records of the three functions that are wrapped in @retry.
RetriedCalls == <<st[1], sm, si["direct"], si["pipeline"]>>
RetriedCallsNext == <<st[1]', sm', si["direct"]', si["pipeline"]'>>

\* What one step does to a running call's attempt number: nothing; or a new
\* attempt begins, the one before having failed with a storage error; or the
\* call returns.  An exception that is not a storage error ends the call in
\* the attempt that raised it.
RetryStep(old, new) ==
  ~Ended(old) =>
    /\ \/ new.attempt = old.attempt
       \/ /\ new.attempt = old.attempt + 1
          /\ new.pc = "begin"
          /\ new.error \in SQLAlchemyError
       \/ new.pc = "returned"
    /\ new.error \notin SQLAlchemyError \cup {None} =>
         new.pc = "raised" /\ new.attempt = old.attempt

\* C5 (as amended): a call makes at most 3 attempts; a further attempt is
\* started only after the previous attempt failed with a storage-layer
\* exception; when the call raises a storage error, that was the error of its
\* third attempt; an exception that is not a storage-layer exception ends the
\* call in the attempt that raised it, with no further attempt.
C5_RetryPolicy ==
  /\ [](\A n \in 1..Len(RetriedCalls) :
          /\ RetriedCalls[n].attempt <= MaxAttempts
          /\ (RetriedCalls[n].pc = "raised" /\ RetriedCalls[n].error \in SQLAlchemyError)
               => RetriedCalls[n].attempt = MaxAttempts
          /\ RetriedCalls[n].pc = "raised" => RetriedCalls[n].error # None)
  /\ [][\A n \in 1..Len(RetriedCalls) : RetryStep(RetriedCalls[n], RetriedCallsNext[n])]_vars

\* save_insight's first attempt failed with a storage error and its second
\* attempt raised the TypeError of json.dumps.
C5_Witness ==
  /\ si["direct"].pc = "raised"
  /\ si["direct"].error = "TypeError"
  /\ si["direct"].attempt = 2

\* C5 as claimed: an exception that is not a storage-layer exception
\* propagates after exactly one attempt.
C5_NonStorageAfterOneAttempt ==
  \A n \in 1..Len(RetriedCalls) :
    /\ RetriedCalls[n].attempt <= MaxAttempts
    /\ (RetriedCalls[n].pc = "raised" /\ RetriedCalls[n].error \in SQLAlchemyError)
         => RetriedCalls[n].attempt = MaxAttempts
    /\ (RetriedCalls[n].pc = "raised" /\ RetriedCalls[n].error \notin SQLAlchemyError)
         => RetriedCalls[n].attempt = 1

\* C10: transactions are never updated or deleted.  Every step of every
\* function leaves each stored transaction row in its place with every field
\* unchanged; a step of the pipeline or of save_insight (a step that changes
\* their call records or the insights table) leaves the transactions and the
\* statements tables unchanged.
C10_TransactionsKept ==
  [][/\ Len(transactions') >= Len(transactions)
     /\ \A i \in 1..Len(transactions) : transactions'[i] = transactions[i]
     /\ (\/ ~Ended(pl) \/ ~Ended(pl')
         \/ \E c \in SiCallers : ~Ended(si[c]) \/ ~Ended(si'[c])
         \/ Len(insights') # Len(insights))
          => (transactions' = transactions /\ statements' = statements)]_vars

\* The pipeline ran to its end over two stored transactions, with a statement
\* stored: the stored category summary is the one of the table.
C10_Witness ==
  /\ Len(transactions) = 2
  /\ Len(statements) = 1
  /\ pl.pc = "returned"
  /\ ~pl.hit
  /\ \E k \in 1..Len(insights) :
       /\ insights[k].insight_type = "category_summary"
       /\ insights[k].value.text = summarize_by_category(transactions)

(***************************************************************************)
(* Claims about the insight cache and the pipeline (SpecInsights).         *)
(***************************************************************************)
\* Whether the insights table holds a row that is unexpired at time t.
SomeUnexpired(table, t) == \E k \in 1..Len(table) : table[k].expires_at > t

\* The unexpired row of a type and key, as its position; 0 when there is none.
UnexpiredRow(table, t, type, key) ==
  IF \E k \in 1..Len(table) :
       InsightKey(table[k]) = <<type, key>> /\ table[k].expires_at > t
  THEN CHOOSE k \in 1..Len(table) :
         InsightKey(table[k]) = <<type, key>> /\ table[k].expires_at > t
  ELSE 0

\* The report's entry for a type is the value of the type's unexpired "all"
\* row, and the empty default when the type has no unexpired row.
ServedFromUnexpired(table, t, type, entry) ==
  IF UnexpiredRow(table, t, type, "all") = 0 THEN entry = <<>>
  ELSE /\ table[UnexpiredRow(table, t, type, "all")].value.kind = "json"
       /\ entry = table[UnexpiredRow(table, t, type, "all")].value.text

\* The step in which a non-forced call's cache check ends.
CacheChecked == pl.pc = "check" /\ pl'.pc # "check"

\* C6: cache short-circuit.  When some insight row is unexpired and the cache
\* query itself does not fail, a non-forced pipeline call returns: it runs no
\* tool and writes no insight row, and each of the four insight types is
\* reported from its unexpired row, or as its empty default when it has none.
C6_CacheShortCircuit ==
  [][(CacheChecked /\ SomeUnexpired(insights, now) /\ pl'.error # "OperationalError")
       => /\ pl'.pc = "returned"
          /\ pl'.log = <<>>
          /\ insights' = insights
          /\ \A n \in 1..Len(INSIGHT_TYPES) :
               ServedFromUnexpired(insights, now, INSIGHT_TYPES[n],
                                   pl'.report[INSIGHT_TYPES[n]])
     ]_vars

\* C7: expired insights are never served.  A report returned from the cache
\* takes each of its values (the four insight types, the merchants and
\* computed_at) from a row that is unexpired when the cache is read; when no
\* row is unexpired, a non-forced call starts the recompute in the state in
\* which a forced call starts it, and a recompute that returns has run and
\* persisted the four tools.
FullLog ==
  <<<<"tool", 1>>, <<"saved", 1>>, <<"tool", 2>>, <<"saved", 2>>,
    <<"tool", 3>>, <<"saved", 3>>, <<"tool", 4>>, <<"saved", 4>>>>

C7_ExpiredNeverServed ==
  /\ [][(CacheChecked /\ pl'.pc = "returned")
         => /\ \A n \in 1..Len(INSIGHT_TYPES) :
                 ServedFromUnexpired(insights, now, INSIGHT_TYPES[n],
                                     pl'.report[INSIGHT_TYPES[n]])
            /\ \A m \in 1..Len(pl'.report.merchants) :
                 LET row == UnexpiredRow(insights, now, "merchant_enrichment",
                                         pl'.report.merchants[m][1])
                 IN /\ row # 0
                    /\ insights[row].value.kind = "json"
                    /\ pl'.report.merchants[m][2] = insights[row].value.text
            /\ IF UnexpiredRow(insights, now, "category_summary", "all") = 0
               THEN pl'.report.computed_at = None
               ELSE pl'.report.computed_at =
                      isoformat(insights[UnexpiredRow(insights, now, "category_summary",
                                                      "all")].computed_at)]_vars
  /\ [][(CacheChecked /\ ~SomeUnexpired(insights, now) /\ pl'.pc # "raised")
         => [pl' EXCEPT !.force = TRUE] = Recompute([PlIdle EXCEPT !.force = TRUE])]_vars
  /\ [](pl.pc = "returned" /\ ~pl.hit => pl.log = FullLog)
  /\ [](pl.pc = "returned" /\ pl.hit => pl.log = <<>>)

\* A call read the cache when the merchant's row had expired and the four
\* "all" rows had not: its report has the four values and no merchant.
C7_Witness ==
  /\ pl.pc = "returned"
  /\ pl.hit
  /\ pl.report.merchants = <<>>
  /\ pl.report.category_summary # <<>>
  /\ \E k \in 1..Len(insights) :
       /\ insights[k].insight_type = "merchant_enrichment"
       /\ insights[k].expires_at <= now

\* C9: pipeline abort.  The tools run and are persisted in the fixed order,
\* each result persisted before the next tool runs; when a tool raises, or
\* save_insight raises after its third attempt, the pipeline raises that error
\* with no report, and runs and persists nothing more.
IsPrefix(s, t) == Len(s) <= Len(t) /\ SubSeq(t, 1, Len(s)) = s

\* Step k's result is stored as the value of the row (INSIGHT_TYPES[k], "all").
Persisted(table, k, result) ==
  \E r \in 1..Len(table) :
    /\ InsightKey(table[r]) = <<INSIGHT_TYPES[k], "all">>
    /\ table[r].value.kind = "json"
    /\ table[r].value.text = result.v

C9_PipelineAbort ==
  /\ [](/\ IsPrefix(pl.log, FullLog)
        /\ pl.pc = "raised" => pl.report = NoReport
        /\ (pl.pc = "raised" /\ pl.force) => pl.log[Len(pl.log)] = <<"tool", pl.k>>
        /\ Ended(pl) => si["pipeline"].pc = "idle"
        /\ \A k \in 1..Len(INSIGHT_TYPES) :
             (~Ended(pl) /\ \E n \in 1..Len(pl.log) : pl.log[n] = <<"saved", k>>)
               => Persisted(insights, k, pl.results[k]))
  /\ [][
         /\ (pl.pc = "save" /\ pl'.pc = "raised")
            => /\ si["pipeline"].pc = "raised"
               /\ si["pipeline"].attempt = MaxAttempts
               /\ pl'.error = si["pipeline"].error
               /\ pl'.log = pl.log
         /\ (pl.pc = "save" /\ pl'.pc = "tool")
            => /\ si["pipeline"].pc = "returned"
               /\ Persisted(insights, pl.k, pl.results[pl.k])
               /\ pl'.k = pl.k + 1
         /\ (pl.pc = "tool" /\ pl'.pc = "raised")
            => /\ pl'.error # None
               /\ pl'.k = pl.k
               /\ insights' = insights
         /\ (Ended(pl) /\ Ended(pl') /\ insights' # insights)
            => ~Ended(si["direct"])]_vars

\* The third save_insight of a forced run raised after three attempts: the
\* first two results are stored, the trends and the anomalies are not.
C9_Witness ==
  /\ pl.pc = "raised"
  /\ pl.force
  /\ pl.k = 3
  /\ pl.log = SubSeq(FullLog, 1, 5)
  /\ pl.error = "OperationalError"
  /\ Len(insights) = 2
  /\ Persisted(insights, 1, pl.results[1])
  /\ Persisted(insights, 2, pl.results[2])

(***************************************************************************)
(* Claims about save_insight under interleaving (SpecUpsert).              *)
(***************************************************************************)
\* The position of the row of a pair, 0 when the pair is not stored.
RowOf(table, type, key) ==
  IF \E k \in 1..Len(table) : InsightKey(table[k]) = <<type, key>>
  THEN CHOOSE k \in 1..Len(table) : InsightKey(table[k]) = <<type, key>>
  ELSE 0

\* Caller c's save_insight returns in this step, its pair being stored already.
SavedOver(c) ==
  /\ si[c].pc = "commit"
  /\ si'[c].pc = "returned"
  /\ RowOf(insights, si[c].args.insight_type, si[c].args.key) # 0

\* C8: insight upsert never duplicates.  The insights table never holds two
\* rows of one (insight_type, key); a save_insight that returns for a pair that
\* is stored adds no row and leaves the other rows alone, and the pair's row
\* then has the call's value, transaction_ids and confidence, computed_at the
\* time of the save and expires_at that time plus INSIGHTS_TTL_DAYS, whatever
\* its expiry was.
C8_UpsertNeverDuplicates ==
  /\ [](\A i, j \in 1..Len(insights) :
          i < j => InsightKey(insights[i]) # InsightKey(insights[j]))
  /\ [][\A c \in SiCallers :
          SavedOver(c) =>
            LET r == RowOf(insights, si[c].args.insight_type, si[c].args.key)
            IN /\ Len(insights') = Len(insights)
               /\ \A k \in 1..Len(insights) : k # r => insights'[k] = insights[k]
               /\ InsightKey(insights'[r]) = InsightKey(insights[r])
               /\ insights'[r].value = ValueJson(si[c].args.value)
               /\ insights'[r].transaction_ids = si[c].args.transaction_ids
               /\ insights'[r].confidence = si[c].args.confidence
               /\ insights'[r].computed_at = si[c].computed_at
               /\ insights'[r].expires_at = si[c].computed_at + INSIGHTS_TTL_DAYS]_vars

\* While a pipeline run was under way, the direct caller overwrote the row
\* that the pipeline's first step had inserted a week before, when it had
\* expired: the row is older than the row behind it, and carries the direct
\* caller's confidence and the new expiry.
C8_Witness ==
  /\ ~Ended(pl)
  /\ Len(insights) >= 2
  /\ insights[1].insight_type = "category_summary"
  /\ insights[1].confidence = D1.confidence
  /\ insights[1].computed_at = ClockStep
  /\ insights[1].expires_at = ClockStep + INSIGHTS_TTL_DAYS
  /\ insights[2].computed_at = 0

(***************************************************************************)
(* Claims about save_statement_metadata (SpecStatements).                  *)
(***************************************************************************)
\* Statements (re)processed one after the other, for two source files, with
\* complete metadata, with metadata whose fields are mostly None, and with no
\* metadata at all.
NextStatements ==
  \/ \E f \in SourceFiles, meta \in MetaPool : CallSaveStatementMetadata(f, meta)
  \/ SmBegin
  \/ SmCommit

SpecStatements == Init /\ [][NextStatements]_vars

\* The positions of the rows of a source file.
RowsOf(table, source_file) ==
  {k \in 1..Len(table) : table[k].source_file = source_file}

\* The statements table holds exactly one row for the call's source file, and
\* every column of it is the call's value for it, None included.
ReplacedBy(table, call) ==
  /\ Cardinality(RowsOf(table, call.source_file)) = 1
  /\ \A k \in RowsOf(table, call.source_file) :
       table[k] = DBStatement(call.source_file, call.meta)

\* The rows of the other source files are what and where they were.
OthersKept(old, new, source_file) ==
  \A k \in 1..Len(old) :
    old[k].source_file # source_file => (k <= Len(new) /\ new[k] = old[k])

\* C11: Statement metadata is one row per source file, replaced in full.  The
\* statements table never holds two rows of one source file; a call that
\* returns leaves exactly one row for its source file whose eight metadata
\* columns are the call's, None where the call gave None, and leaves the rows
\* of other source files alone; any step that is not a returning commit
\* leaves the table unchanged.
C11_FullReplace ==
  /\ [](\A f \in SourceFiles : Cardinality(RowsOf(statements, f)) <= 1)
  /\ [](sm.pc = "returned" => ReplacedBy(statements, sm))
  /\ [][IF sm.pc = "commit" /\ sm'.pc = "returned"
        THEN /\ ReplacedBy(statements', sm)
             /\ OthersKept(statements, statements', sm.source_file)
             /\ Len(statements') <= Len(statements) + 1
        ELSE statements' = statements]_vars

\* A re-extraction with None fields has replaced a row that held values.
C11_Witness ==
  /\ sm.pc = "returned"
  /\ sm.meta = M2
  /\ sm.source_file = "a.pdf"
  /\ sm.attempt = 2
  /\ Len(statements) = 2
  /\ \E k \in 1..2 : statements[k] = DBStatement("b.pdf", M1)
  /\ \E k \in 1..2 : statements[k].source_file = "a.pdf"
                       /\ statements[k].period_start = None

\* The unexpired rows whose stored text json.loads rejects, as positions.
Malformed(table, t) ==
  {k \in 1..Len(table) :
     /\ table[k].expires_at > t
     /\ Truthy(table[k].value)
     /\ LoadsDecodeError(table[k].value)}

\* C12: malformed cached JSON is skipped per record.  When an unexpired row
\* holds text that is not valid JSON and the cache query itself does not
\* fail, a non-forced pipeline call returns a report that leaves out that
\* row only: no merchant entry is reported for the row's key.
C12_MalformedSkipped ==
  [][(CacheChecked /\ Malformed(insights, now) # {} /\ pl'.error # "OperationalError")
       => /\ pl'.pc = "returned"
          /\ \A k \in Malformed(insights, now) :
               \A m \in 1..Len(pl'.report.merchants) :
                 pl'.report.merchants[m][1] # insights[k].key
     ]_vars

(***************************************************************************)
(* Claims about enrich_merchant (SpecMerchant).                            *)
(***************************************************************************)
\* Merchant names: up to MaxPieces pieces written one after the other.
MaxPieces == 3
NamePieces ==
  {"UBER", " EATS", " DELIVERY", "XYZCORP123", " gas", "Amazon", " Prime"}

RECURSIVE Joined(_)
Joined(pieces) ==
  IF Len(pieces) = 0 THEN <<>> ELSE Chars(pieces[1]) \o Joined(Tail(pieces))

MerchantNames == {Joined(ps) : ps \in SeqsUpTo(NamePieces, MaxPieces)}

CallEnrichMerchant(name) ==
  /\ tc.pc = "idle"
  /\ tc' = [pc |-> "returned", fn |-> "enrich_merchant", arg |-> name,
            result |-> enrich_merchant(name)]
  /\ UNCHANGED <<transactions, statements, insights, now, st, sm, si, pl>>

\* enrich_merchant called on names, whatever the tables hold.
InitMerchant ==
  /\ transactions \in {<<>>, StoredTable}
  /\ statements = <<>>
  /\ insights = <<>>
  /\ now = 0
  /\ st = [c \in Callers |-> StIdle]
  /\ sm = SmIdle
  /\ si = [c \in SiCallers |-> SiIdle]
  /\ pl = PlIdle
  /\ tc = TcIdle

NextMerchant == \E name \in MerchantNames : CallEnrichMerchant(name)

SpecMerchant == InitMerchant /\ [][NextMerchant]_vars

\* An upper-cased name contains a keyword of the c-th category.
CategoryMatches(upper_name, c) ==
  \E k \in 1..Len(MERCHANT_RULES[c][2]) : KeywordIn(upper_name, c, k)

\* What the first-match rule gives for an upper-cased name.
FirstMatchUpper(up) ==
  IF \A c \in 1..Len(MERCHANT_RULES) : ~CategoryMatches(up, c)
  THEN UnknownMerchant
  ELSE LET c == CHOOSE d \in 1..Len(MERCHANT_RULES) :
                  /\ CategoryMatches(up, d)
                  /\ \A e \in 1..(d - 1) : ~CategoryMatches(up, e)
           k == CHOOSE j \in 1..Len(MERCHANT_RULES[c][2]) :
                  /\ KeywordIn(up, c, j)
                  /\ \A i \in 1..(j - 1) : ~KeywordIn(up, c, i)
       IN [type |-> MERCHANT_RULES[c][1], inferred_category |-> MERCHANT_RULES[c][1],
           matched_keyword |-> MERCHANT_RULES[c][2][k]]

\* What the first-match rule gives for a name.
FirstMatch(name) ==
  IF Len(name) = 0 THEN UnknownMerchant
  ELSE The({FirstMatchUpper(up) : up \in {upper(name)}})

\* C13: merchant matcher first-match rule.  enrich_merchant returns the first
\* category in declaration order that has a keyword contained in the
\* upper-cased name, with the first such keyword of that category's list;
\* "UBER EATS DELIVERY" gives Transportation; the empty name and a name with
\* no keyword ("XYZCORP123") give type Unknown, category Miscellaneous and no
\* matched keyword; the result is a function of the name alone.
C13_FirstMatch ==
  tc.fn = "enrich_merchant" =>
    /\ tc.result = FirstMatch(tc.arg)
    /\ tc.arg = Joined(<<"UBER", " EATS", " DELIVERY">>) => tc.result.type = "Transportation"
    /\ tc.arg \in {<<>>, Chars("XYZCORP123")} =>
         /\ tc.result.type = "Unknown"
         /\ tc.result.inferred_category = "Miscellaneous"
         /\ DOMAIN tc.result = {"type", "inferred_category"}

\* A name with keywords of two categories, the later category's keyword
\* first in the name, and two keywords of the winning category.
C13_Witness ==
  /\ tc.fn = "enrich_merchant"
  /\ tc.arg = Joined(<<"Amazon", " Prime", " gas">>)
  /\ tc.result.type = "Transportation"
  /\ tc.result.matched_keyword = "GAS"
  /\ transactions # <<>>

(***************************************************************************)
(* Claims about detect_subscriptions (SpecSubscriptions).                  *)
(***************************************************************************)
\* The dates of the rows of one group: a group's rows differ in date, as
\* _date_desc_amount_file_uc requires.
MaxOccurrences == 3
GroupDates == <<"2025-11-01", "2025-11-02", "2025-11-03", "2025-11-04">>

\* The n-th row of a (description, amount, provider_name, account_last_4) group.
GroupRow(g, n) ==
  [DBTransaction(Transaction(GroupDates[n], g[1], g[2], "Services", "a.pdf", None, None))
     EXCEPT !.provider_name = g[3], !.account_last_4 = g[4]]

\* A group with a subscription keyword in another case, and three without:
\* two of them differ only in the account, two only in the amount.
Groups ==
  <<<<"Netflix", 1999, None, None>>,
    <<"cafe", 500, None, None>>,
    <<"cafe", 500, "Chase", "1234">>,
    <<"cafe", 700, None, None>>>>

\* The table that holds counts[k] rows of the k-th group.
RECURSIVE GroupedTable(_, _)
GroupedTable(counts, k) ==
  IF k > Len(Groups) THEN <<>>
  ELSE [n \in 1..counts[k] |-> GroupRow(Groups[k], n)] \o GroupedTable(counts, k + 1)

SubscriptionTables ==
  {GroupedTable(counts, 1) : counts \in [1..Len(Groups) -> 0..MaxOccurrences]}

InitSubscriptions ==
  /\ transactions \in SubscriptionTables
  /\ statements = <<>>
  /\ insights = <<>>
  /\ now = 0
  /\ st = [c \in Callers |-> StIdle]
  /\ sm = SmIdle
  /\ si = [c \in SiCallers |-> SiIdle]
  /\ pl = PlIdle
  /\ tc = TcIdle

CallDetectSubscriptions ==
  /\ tc.pc = "idle"
  /\ tc' = [pc |-> "returned", fn |-> "detect_subscriptions", arg |-> None,
            result |-> detect_subscriptions(transactions)]
  /\ UNCHANGED <<transactions, statements, insights, now, st, sm, si, pl>>

NextSubscriptions == CallDetectSubscriptions

SpecSubscriptions == InitSubscriptions /\ [][NextSubscriptions]_vars

\* The rows of a table that belong to a group.
GroupCount(table, g) ==
  Cardinality({k \in 1..Len(table) :
                 <<table[k].description, table[k].amount, table[k].provider_name,
                   table[k].account_last_4>> = g})

\* The entries of a result that report a group.
EntriesOf(result, g) ==
  {k \in 1..Len(result) :
     <<result[k].description, result[k].amount, result[k].provider,
       result[k].account>> = g}

MinWarmUp == 19
MaxWarmUp == 22
ProbeAmounts == {10000, 10001, 20000, 20001}

AnomalyDates ==
  <<
    "2025-11-01", "2025-11-02", "2025-11-03", "2025-11-04", "2025-11-05", "2025-11-06",
    "2025-11-07", "2025-11-08", "2025-11-09", "2025-11-10", "2025-11-11", "2025-11-12",
    "2025-11-13", "2025-11-14", "2025-11-15", "2025-11-16", "2025-11-17", "2025-11-18",
    "2025-11-19", "2025-11-20", "2025-11-21", "2025-11-22", "2025-11-23", "2025-11-24",
    "2025-11-25", "2025-11-26", "2025-11-27", "2025-11-28", "2025-11-29", "2025-11-30",
    "2025-12-01", "2025-12-02", "2025-12-03", "2025-12-04", "2025-12-05", "2025-12-06",
    "2025-12-07", "2025-12-08", "2025-12-09", "2025-12-10"
  >>

Shops ==
  <<
    "Shop01", "Shop02", "Shop03", "Shop04", "Shop05", "Shop06", "Shop07", "Shop08",
    "Shop09", "Shop10", "Shop11", "Shop12", "Shop13", "Shop14", "Shop15", "Shop16",
    "Shop17", "Shop18", "Shop19", "Shop20", "Shop21", "Shop22", "Shop23", "Shop24"
  >>

Expense(desc, amt, cat, mer) == <<desc, amt, cat, mer>>

WarmUpRows(n) ==
  [k \in 1..n |-> Expense(Shops[k], IF k <= 2 THEN 100000 ELSE 4000, "Shopping", None)]

SkippedRows ==
  <<Expense("SkipA", 0, "Shopping", None),
    Expense("SkipB", 90000, "Credit Card Payment", None),
    Expense("SkipC", 0 - 2500, "Shopping", None),
    Expense("SkipD", 90000, "Internal Transfer", None)>>

History(n, skipped, probe) ==
  WarmUpRows(n)
    \o <<Expense("Netflix", 4000, "Shopping", "SHOP01")>>
    \o (IF skipped THEN SkippedRows ELSE <<>>)
    \o <<Expense("Shop01", probe, "Shopping", None),
          Expense("Probe", 99999, "Dining", None),
          Expense("Shop02", 100, "Coffee", None),
          Expense("Shop02", 100, "Coffee", None),
          Expense("Shop02", 5000, "Coffee", None),
          Expense("Shop02", 5001, "Coffee", None),
          Expense("Shop02", 13000, "Coffee", None),
          Expense("Probe2", 60000, "Coffee", None),
          Expense("Shop03", 299997, "Dining", None)>>

\* The rows of a history, the k-th dated AnomalyDates[k].
Dated(history) ==
  [k \in 1..Len(history) |->
     DBTransaction(Transaction(AnomalyDates[k], history[k][1], history[k][2],
                               history[k][3], "a.pdf", history[k][4], None))]

Reversed(seq) == [k \in 1..Len(seq) |-> seq[Len(seq) + 1 - k]]

AnomalyTables ==
  {<<>>}
    \cup {Dated(History(n, skipped, probe)) :
            n \in MinWarmUp..MaxWarmUp, skipped \in BOOLEAN, probe \in ProbeAmounts}
    \cup {Reversed(Dated(History(n, skipped, probe))) :
            n \in MinWarmUp..MaxWarmUp, skipped \in BOOLEAN, probe \in ProbeAmounts}

InitAnomalies ==
  /\ transactions \in AnomalyTables
  /\ statements = <<>>
  /\ insights = <<>>
  /\ now = 0
  /\ st = [c \in Callers |-> StIdle]
  /\ sm = SmIdle
  /\ si = [c \in SiCallers |-> SiIdle]
  /\ pl = PlIdle
  /\ tc = TcIdle

NextAnomalies ==
  \/ CallDetectAnomalies
  \/ AnomalyLoop

SpecAnomalies == InitAnomalies /\ [][NextAnomalies]_vars

\* A transaction the pass does not skip, by the rule as stated.
Qualifies(tx) ==
  tx.amount > 0 /\ tx.category \notin {"Credit Card Payment", "Internal Transfer"}

\* The merchant keys of the qualifying transactions before the i-th.
RecordedKeys(sorted_txs, i) ==
  {MerchantKey(sorted_txs[k]) : k \in {j \in 1..(i - 1) : Qualifies(sorted_txs[j])}}

\* The amounts of the qualifying transactions of a category before the i-th,
\* in the order of the pass.
EarlierAmounts(sorted_txs, i, category) ==
  LET idx == Ascending({j \in 1..(i - 1) :
                          Qualifies(sorted_txs[j]) /\ sorted_txs[j].category = category})
  IN [k \in 1..Len(idx) |-> sorted_txs[idx[k]].amount]

\* A step that processes the i-th transaction of the pass, that transaction,
\* and the anomalies the step emits.
Iteration == tc.pc = "loop" /\ tc.i <= Len(tc.sorted_txs)
Cur == tc.sorted_txs[tc.i]
Emitted == SubSeq(tc'.anomalies, Len(tc.anomalies) + 1, Len(tc'.anomalies))

\* C15: anomaly cold start.  seen_merchants holds the merchant keys of the
\* qualifying transactions processed so far, and a transaction processed
\* while fewer than 20 distinct keys are recorded emits no "new_merchant"
\* anomaly, whatever its amount.
C15_ColdStart ==
  /\ [](tc.pc = "loop" => tc.seen_merchants = RecordedKeys(tc.sorted_txs, tc.i))
  /\ [][(Iteration /\ Cardinality(RecordedKeys(tc.sorted_txs, tc.i)) < 20)
          => \A k \in 1..Len(Emitted) : Emitted[k].type # "new_merchant"]_vars

\* The 20th distinct merchant has just been processed, with a large amount,
\* and no new_merchant anomaly was emitted.
C15_Witness ==
  /\ tc.pc = "loop"
  /\ tc.i > 1
  /\ tc.sorted_txs[tc.i - 1].description = "Probe"
  /\ tc.sorted_txs[tc.i - 1].amount = 99999
  /\ Cardinality(tc.seen_merchants) = 20
  /\ \A k \in 1..Len(tc.anomalies) : tc.anomalies[k].type # "new_merchant"

\* C16: new-merchant rule threshold.  Once at least 20 distinct merchant keys
\* are recorded, every qualifying transaction whose merchant key is not
\* recorded emits a "new_merchant" anomaly of severity "low"; so does the
\* transaction that introduces the 21st key.
C16_NewMerchantFrom20 ==
  [][(/\ Iteration
      /\ Qualifies(Cur)
      /\ Cardinality(RecordedKeys(tc.sorted_txs, tc.i)) >= 20
      /\ MerchantKey(Cur) \notin RecordedKeys(tc.sorted_txs, tc.i))
       => \E k \in 1..Len(Emitted) :
            Emitted[k].type = "new_merchant" /\ Emitted[k].severity = "low"]_vars

C18_SkippedUntouched ==
  /\ [][(Iteration /\ ~Qualifies(Cur)) => tc' = [tc EXCEPT !.i = @ + 1]]_vars
  /\ []((tc.pc = "returned" /\ tc.fn = "detect_anomalies")
          => tc.result =
               detect_anomalies(Filter(transactions,
                                       [k \in 1..Len(transactions) |->
                                          Qualifies(transactions[k])])))

\* A call has returned anomalies on a table with the four kinds of skipped
\* transactions, whose merchants would have ended the cold start.
C18_Witness ==
  /\ tc.pc = "returned"
  /\ tc.fn = "detect_anomalies"
  /\ \A d \in {"SkipA", "SkipB", "SkipC", "SkipD"} :
       \E k \in 1..Len(transactions) : transactions[k].description = d
  /\ Cardinality(tc.seen_merchants) = 21
  /\ Len(tc.result) = 4
  /\ \A k \in 1..Len(tc.result) : tc.result[k].type = "spike"

\* C19: last-5 truncation.  The pass visits the table's transactions in
\* ascending order of date; each step appends its anomalies to the list, the
\* spike before the new_merchant anomaly of the same transaction; the call
\* returns the last min(5, n) of the n anomalies in that order, whatever
\* their severity.
C19_LastFive ==
  /\ [](tc.pc = "loop" =>
          /\ Len(tc.sorted_txs) = Len(transactions)
          /\ \A k \in 1..(Len(tc.sorted_txs) - 1) :
               ~StrLess(Chars(tc.sorted_txs[k + 1].date), Chars(tc.sorted_txs[k].date)))
  /\ [][Iteration =>
          /\ SubSeq(tc'.anomalies, 1, Len(tc.anomalies)) = tc.anomalies
          /\ Len(Emitted) <= 2
          /\ \A k \in 1..Len(Emitted) : Emitted[k].date = Cur.date
          /\ Len(Emitted) = 2 =>
               Emitted[1].type = "spike" /\ Emitted[2].type = "new_merchant"]_vars
  /\ []((tc.pc = "returned" /\ tc.fn = "detect_anomalies") =>
          LET n == Len(tc.anomalies)
              m == IF n < 5 THEN n ELSE 5
          IN /\ Len(tc.result) = m
             /\ \A k \in 1..m : tc.result[k] = tc.anomalies[n - m + k])

\* Seven anomalies were emitted from a table stored in reverse order: a high
\* spike and a low new_merchant are dropped, and the five returned hold the
\* spike and the new_merchant anomaly of one transaction, in that order.
C19_Witness ==
  /\ tc.pc = "returned"
  /\ tc.fn = "detect_anomalies"
  /\ Len(transactions) > 0
  /\ transactions[1].description = "Shop03"
  /\ Len(tc.anomalies) = 7
  /\ tc.anomalies[1].severity = "high"
  /\ tc.anomalies[2].severity = "low"
  /\ Len(tc.result) = 5
  /\ tc.result[1].severity = "medium"
  /\ tc.result[3].type = "spike"
  /\ tc.result[4].type = "new_merchant"
  /\ tc.result[3].date = tc.result[4].date

(***************************************************************************)
(* Claims about analyze_trends (SpecTrends).                               *)
(***************************************************************************)
\* Tables with two months of spending: the previous month's total is a
\* multiple of 0.20 up to MaxPrevious * 0.20, or 100.00, or 0; the current
\* month's total is 5% more or less than it, one cent inside or outside
\* that, or some other amount; the current month is stored as one or as two
\* transactions.
MaxPrevious == 8
PreviousTotals == {20 * k : k \in 1..MaxPrevious} \cup {0, 10000}
CurrentTotals(p) ==
  {p + p \div 20, p - p \div 20, p + p \div 20 + 1, p - p \div 20 - 1,
   p + p \div 20 - 1, p - p \div 20 + 1, 2 * p + 150}

Spending(d, amt) == DBTransaction(Transaction(d, "Netflix", amt, "Services", "a.pdf", None, None))

TrendTables ==
  {<<>>}
    \cup UNION {{<<Spending("2025-11-01", p), Spending("2025-12-01", c)>> :
                   c \in CurrentTotals(p)} : p \in PreviousTotals}
    \cup {<<Spending("2025-12-02", 100), Spending("2025-11-01", p),
            Spending("2025-12-01", p + p \div 20 - 100)>> : p \in {10000}}

InitTrends ==
  /\ transactions \in TrendTables
  /\ statements = <<>>
  /\ insights = <<>>
  /\ now = 0
  /\ st = [c \in Callers |-> StIdle]
  /\ sm = SmIdle
  /\ si = [c \in SiCallers |-> SiIdle]
  /\ pl = PlIdle
  /\ tc = TcIdle

CallAnalyzeTrends ==
  /\ tc.pc = "idle"
  /\ tc' = [pc |-> "returned", fn |-> "analyze_trends", arg |-> None,
            result |-> analyze_trends(transactions)]
  /\ UNCHANGED <<transactions, statements, insights, now, st, sm, si, pl>>

NextTrends == CallAnalyzeTrends

SpecTrends == InitTrends /\ [][NextTrends]_vars

\* C20: trend stability band.  With c and p the two most recent monthly
\* totals and p non-zero, the trend is "increasing" exactly when
\* (c - p) / |p| * 100 > 5, "decreasing" exactly when it is < -5, and "stable"
\* otherwise, so that a change of exactly +5% or -5% is "stable"; with p = 0
\* the change is 0 and the trend "stable".  In cents, (c - p) / |p| * 100 > 5
\* is (c - p) * 100 > 5 * |p|.
C20_StabilityBand ==
  (tc.fn = "analyze_trends" /\ Len(tc.result.monthly) >= 2) =>
    LET c == tc.result.current_month_total
        p == tc.result.previous_month_total
        abs_p == IF p < 0 THEN 0 - p ELSE p
    IN /\ c = tc.result.monthly[Len(tc.result.monthly)].amount
       /\ p = tc.result.monthly[Len(tc.result.monthly) - 1].amount
       /\ tc.result.trend =
            IF p # 0 /\ (c - p) * 100 > 5 * abs_p THEN "increasing"
            ELSE IF p # 0 /\ (c - p) * 100 < 0 - 5 * abs_p THEN "decreasing"
            ELSE "stable"
       /\ p = 0 => tc.result.change_percentage = 0

(***************************************************************************)
(* Claims about the series of analyze_trends (SpecSeries).                 *)
(***************************************************************************)
\* Tables of up to MaxRows of the rows below, in stored order (which is not
\* the order of the dates): a day, the days 30 and 31
\* days before it, the day 85 days before it, a second row of the same day, a
\* later payment (an excluded category), dates written with slashes (month
\* first, and a day above 12) and a string with a month 13.  And tables
\* with one row in each of the latest m months, m up to MaxMonths, with or
\* without a second row in the latest month.  The clock is at either end.
MaxRows == 3
MaxMonths == 13

Spent(d, amt, cat) == DBTransaction(Transaction(d, "Netflix", amt, cat, "a.pdf", None, None))

SeriesRows ==
  <<Spent("2025-11-02", 800, "Services"),
    Spent("2025-12-01", 100, "Services"),
    Spent("2025-12-10", 1600, "Credit Card Payment"),
    Spent("2025-11-01", 200, "Services"),
    Spent("2025-10-31", 400, "Dining"),
    Spent("12/05/2025", 3200, "Services"),
    Spent("2025-12-01", 12800, "Dining"),
    Spent("13/12/2025", 50, "Services"),
    Spent("2025-09-07", 75, "Services"),
    Spent("2025-13-01", 5, "Services")>>

RECURSIVE RowsAt(_)
RowsAt(I) ==
  IF I = {} THEN <<>>
  ELSE LET k == CHOOSE i \in I : \A j \in I : i <= j
       IN <<SeriesRows[k]>> \o RowsAt(I \ {k})

MonthDates ==
  <<"2025-12-01", "2025-11-01", "2025-10-01", "2025-09-01", "2025-08-01", "2025-07-01",
    "2025-06-01", "2025-05-01", "2025-04-01", "2025-03-01", "2025-02-01", "2025-01-01",
    "2024-12-01", "2024-11-01", "2024-10-01", "2024-09-01", "2024-08-01">>

MonthTable(m) == [k \in 1..m |-> Spent(MonthDates[k], 100 * k, "Services")]

SeriesTables ==
  {RowsAt(I) : I \in {J \in SUBSET (1..Len(SeriesRows)) : Cardinality(J) <= MaxRows}}
    \cup UNION {{MonthTable(m), MonthTable(m) \o <<Spent("2025-12-02", 7, "Dining")>>} :
                  m \in 0..MaxMonths}

InitSeries ==
  /\ transactions \in SeriesTables
  /\ statements = <<>>
  /\ insights = <<>>
  /\ now \in {0, MaxNow}
  /\ st = [c \in Callers |-> StIdle]
  /\ sm = SmIdle
  /\ si = [c \in SiCallers |-> SiIdle]
  /\ pl = PlIdle
  /\ tc = TcIdle

NextSeries == CallAnalyzeTrends

SpecSeries == InitSeries /\ [][NextSeries]_vars

\* The rows whose date string is a date, and their day numbers.
Parseable(table) == {k \in 1..Len(table) : ParseDate(Chars(table[k].date)) # NoDate}
DayNumber(row) == Ordinal(ParseDate(Chars(row.date)))
Latest(table, S) == CHOOSE a \in {DayNumber(table[k]) : k \in S} :
                      \A k \in S : DayNumber(table[k]) <= a
\* The parseable rows of a category that counts as spending.
Counted(table) ==
  {k \in Parseable(table) : table[k].category \notin {"Credit Card Payment", "Internal Transfer"}}

DayKeys(table, S) == {StrfDay(ParseDate(Chars(table[k].date))) : k \in S}
WeekKeys(table, S) == {StrfWeek(ParseDate(Chars(table[k].date))) : k \in S}
DailyKeys == {tc.result.daily[k].date : k \in 1..Len(tc.result.daily)}
WeeklyKeys == {tc.result.weekly[k].week : k \in 1..Len(tc.result.weekly)}
TrendsReturned == tc.pc = "returned" /\ tc.fn = "analyze_trends"

\* The daily and weekly series are anchored at day number a: every counted row
\* less than 30 days (12 weeks) before a has its day (week) in the series, and
\* no day (week) of the series comes only from rows more than 30 days
\* (12 weeks) before a.
AnchoredAt(a) ==
  LET S == Counted(transactions)
      within(days) == {k \in S : DayNumber(transactions[k]) > a - days}
      upto(days) == {k \in S : DayNumber(transactions[k]) >= a - days}
  IN /\ DayKeys(transactions, within(30)) \subseteq DailyKeys
     /\ DailyKeys \subseteq DayKeys(transactions, upto(30))
     /\ WeekKeys(transactions, within(84)) \subseteq WeeklyKeys
     /\ WeeklyKeys \subseteq WeekKeys(transactions, upto(84))

\* C21 (as amended): the anchor of the daily and weekly windows of
\* analyze_trends is the latest parseable date among the stored transactions
\* that are not of an excluded category (Credit Card Payment, Internal
\* Transfer), whatever the current time is.
C21_AnchorLatestCounted ==
  (TrendsReturned /\ Counted(transactions) # {}) =>
    AnchoredAt(Latest(transactions, Counted(transactions)))

\* A call at the later clock value, with a payment dated after the latest
\* counted row and a counted row that the anchor leaves out of the daily series.
C21_Witness ==
  /\ TrendsReturned
  /\ now = MaxNow
  /\ Counted(transactions) # {}
  /\ Latest(transactions, Parseable(transactions)) > Latest(transactions, Counted(transactions))
  /\ Cardinality(DailyKeys) < Cardinality(DayKeys(transactions, Counted(transactions)))

\* C21: the anchor of the daily and weekly windows of analyze_trends is the
\* latest parseable transaction date present in the stored data, whatever the
\* current time is.
C21_AnchorLatestStored ==
  (TrendsReturned /\ Parseable(transactions) # {}) =>
    AnchoredAt(Latest(transactions, Parseable(transactions)))

\* The daily series is that of the counted rows dated on or after day number
\* first: one entry per day that has such a row, its amount the sum of the
\* day's rows, the days ascending.
DailyFrom(first) ==
  LET S == {k \in Counted(transactions) : DayNumber(transactions[k]) >= first}
      daily == tc.result.daily
      day(k) == StrfDay(ParseDate(Chars(transactions[k].date)))
      rows(key) == {k \in S : day(k) = key}
      total(key) == Sum([k \in 1..Len(transactions) |->
                           IF k \in rows(key) THEN transactions[k].amount ELSE 0])
  IN /\ DailyKeys = DayKeys(transactions, S)
     /\ Len(daily) = Cardinality(DailyKeys)
     /\ \A k \in 1..Len(daily) : daily[k].amount = total(daily[k].date)
     /\ \A k \in 1..(Len(daily) - 1) : StrLess(daily[k].date, daily[k + 1].date)

\* C22: daily series window.  The daily series of analyze_trends has one entry
\* per calendar day that has at least one included transaction, equal to the
\* sum of that day's amounts, restricted to the 30 days up to and including
\* the anchor date (a transaction dated exactly 30 days before the anchor is
\* outside that window), sorted by date ascending.
C22_DailyWindow ==
  (TrendsReturned /\ Counted(transactions) # {}) =>
    DailyFrom(Latest(transactions, Counted(transactions)) - 29)

\* The months that have a counted row, and a month's total.
MonthKeys == {StrfMonth(ParseDate(Chars(transactions[k].date))) : k \in Counted(transactions)}
MonthTotal(key) ==
  Sum([k \in 1..Len(transactions) |->
         IF k \in Counted(transactions) /\ StrfMonth(ParseDate(Chars(transactions[k].date))) = key
         THEN transactions[k].amount ELSE 0])
\* The months of MonthKeys that have fewer than n months after them.
LatestMonths(n) ==
  {key \in MonthKeys : Cardinality({later \in MonthKeys : StrLess(key, later)}) < n}

\* C23: monthly series and trend inputs.  analyze_trends sums amounts per
\* calendar month over the whole history of included transactions, sorts the
\* buckets ascending and returns only the 12 most recent;
\* current_month_total and previous_month_total are the last and
\* second-to-last buckets; with exactly one bucket the change is 0,
\* previous_month_total is 0 and current_month_total is that bucket's value;
\* with none all three are 0 and the trend is "stable".
C23_MonthlySeries ==
  TrendsReturned =>
    LET monthly == tc.result.monthly
        r == tc.result
    IN /\ {monthly[k].month : k \in 1..Len(monthly)} = LatestMonths(12)
       /\ Len(monthly) = Cardinality(LatestMonths(12))
       /\ \A k \in 1..Len(monthly) : monthly[k].amount = MonthTotal(monthly[k].month)
       /\ \A k \in 1..(Len(monthly) - 1) : StrLess(monthly[k].month, monthly[k + 1].month)
       /\ Cardinality(MonthKeys) >= 2 =>
            /\ \A key \in LatestMonths(1) : r.current_month_total = MonthTotal(key)
            /\ \A key \in LatestMonths(2) \ LatestMonths(1) :
                 r.previous_month_total = MonthTotal(key)
       /\ Cardinality(MonthKeys) = 1 =>
            /\ r.change_percentage = 0
            /\ r.previous_month_total = 0
            /\ \A key \in MonthKeys : r.current_month_total = MonthTotal(key)
       /\ MonthKeys = {} =>
            /\ r.change_percentage = 0
            /\ r.previous_month_total = 0
            /\ r.current_month_total = 0
            /\ r.trend = "stable"

\* A call on a history of more than 12 months, of which the oldest is not
\* returned.
C23_Witness ==
  /\ TrendsReturned
  /\ Cardinality(MonthKeys) > 12
  /\ Len(tc.result.monthly) = 12
  /\ tc.result.current_month_total = MonthTotal(tc.result.monthly[12].month)

(***************************************************************************)
(* mock_ingest() and summarize_by_category() (SpecSummary).                *)
(***************************************************************************)
\* mock_transactions of mock_ingest, amounts in cents.
mock_transactions ==
  <<Transaction("2025-12-01", "Starbucks", 575, "Dining", "mock_statement.pdf", None, "Seattle, WA"),
    Transaction("2025-12-05", "McDonald's", 1250, "Dining", "mock_statement.pdf", None, "San Francisco, CA"),
    Transaction("2025-12-15", "Italian Bistro", 8500, "Dining", "mock_statement.pdf", None, "New York, NY"),
    Transaction("2025-12-03", "Whole Foods", 12045, "Groceries", "mock_statement.pdf", None, "Austin, TX"),
    Transaction("2025-12-10", "Safeway", 4520, "Groceries", "mock_statement.pdf", None, "San Jose, CA"),
    Transaction("2025-12-08", "Uber", 2450, "Travel", "mock_statement.pdf", None, "SF, CA"),
    Transaction("2025-12-20", "United Airlines", 45000, "Travel", "mock_statement.pdf", None, "Online"),
    Transaction("2025-12-22", "Hilton Hotels", 18000, "Travel", "mock_statement.pdf", None, "Chicago, IL"),
    Transaction("2025-12-12", "Amazon.com", 6500, "Shopping", "mock_statement.pdf", None, "Online"),
    Transaction("2025-12-24", "Apple Store", 129900, "Shopping", "mock_statement.pdf", None, "Palo Alto, CA"),
    Transaction("2025-12-02", "PG&E", 14500, "Utilities", "mock_statement.pdf", None, "SF, CA"),
    Transaction("2025-12-18", "Comcast", 8999, "Utilities", "mock_statement.pdf", None, "Online"),
    Transaction("2025-12-28", "Netflix", 1999, "Services", "mock_statement.pdf", None, "Online")>>

\* mock_ingest(): init_db() and save_transactions(mock_transactions), made
\* before the summary is asked for.
CallMockIngest ==
  /\ tc.pc = "idle"
  /\ CallSaveTransactions(1, mock_transactions)

CallSummarizeByCategory ==
  /\ tc.pc = "idle"
  /\ Ended(st[1])
  /\ tc' = [pc |-> "returned", fn |-> "summarize_by_category", arg |-> None,
            result |-> summarize_by_category(transactions)]
  /\ UNCHANGED <<transactions, statements, insights, now, st, sm, si, pl>>

\* Stored tables of up to MaxRows of these rows: two rows of one category, a
\* category whose total ties with theirs, a row with no category, a refund
\* and a row whose category is the empty string.
SummaryRows ==
  <<DBTransaction(Transaction("2025-12-01", "Lunch", 500, "Dining", "a.pdf", None, None)),
    DBTransaction(Transaction("2025-12-02", "Dinner", 700, "Dining", "a.pdf", None, None)),
    DBTransaction(Transaction("2025-12-03", "Market", 1200, "Groceries", "a.pdf", None, None)),
    DBTransaction(Transaction("2025-12-04", "Cash", 900, None, "a.pdf", None, None)),
    DBTransaction(Transaction("2025-12-05", "Refund", -300, "Travel", "a.pdf", None, None)),
    DBTransaction(Transaction("2025-12-06", "Other", 100, "", "a.pdf", None, None))>>

RECURSIVE SummaryTable(_)
SummaryTable(I) ==
  IF I = {} THEN <<>>
  ELSE LET k == CHOOSE i \in I : \A j \in I : i <= j
       IN <<SummaryRows[k]>> \o SummaryTable(I \ {k})

InitSummary ==
  /\ transactions \in {SummaryTable(I) :
                         I \in {J \in SUBSET (1..Len(SummaryRows)) : Cardinality(J) <= MaxRows}}
  /\ statements = <<>>
  /\ insights = <<>>
  /\ now = 0
  /\ st = [c \in Callers |-> StIdle]
  /\ sm = SmIdle
  /\ si = [c \in SiCallers |-> SiIdle]
  /\ pl = PlIdle
  /\ tc = TcIdle

NextSummary ==
  \/ CallMockIngest
  \/ StBegin(1)
  \/ StLoop(1)
  \/ StCommit(1)
  \/ CallSummarizeByCategory

SpecSummary == InitSummary /\ [][NextSummary]_vars

SummaryReturned == tc.pc = "returned" /\ tc.fn = "summarize_by_category"
Categories == {transactions[k].category : k \in 1..Len(transactions)} \ {None}
CategoryTotal(c) ==
  Sum([k \in 1..Len(transactions) |->
         IF transactions[k].category = c THEN transactions[k].amount ELSE 0])
\* The store holds the 13 seeded rows and nothing else.
Seeded ==
  /\ Len(transactions) = Len(mock_transactions)
  /\ Range(transactions) = {DBTransaction(mock_transactions[k]) : k \in 1..Len(mock_transactions)}

\* C24: category summarizer.  summarize_by_category returns exactly one entry
\* per distinct non-null category of the stored transactions, whose value is
\* the sum of the amounts of all rows of that category, ordered by total
\* descending; for the 13 seeded mock transactions of mock_ingest it returns
\* Dining 103.25, Groceries 165.65, Travel 654.50, Shopping 1364.00,
\* Utilities 234.99, Services 19.99.
C24_CategorySummary ==
  SummaryReturned =>
    LET result == tc.result
    IN /\ {result[k][1] : k \in 1..Len(result)} = Categories
       /\ Len(result) = Cardinality(Categories)
       /\ \A k \in 1..Len(result) : result[k][2] = CategoryTotal(result[k][1])
       /\ \A k \in 1..(Len(result) - 1) : result[k][2] >= result[k + 1][2]
       /\ Seeded =>
            Range(result) = {<<"Dining", 10325>>, <<"Groceries", 16565>>, <<"Travel", 65450>>,
                             <<"Shopping", 136400>>, <<"Utilities", 23499>>, <<"Services", 1999>>}

\* The summary of the store that mock_ingest filled from empty.
C24_Witness ==
  /\ SummaryReturned
  /\ Seeded
  /\ st[1].pc = "returned"
  /\ st[1].result = 13
  /\ Len(tc.result) = 6

(***************************************************************************)
(* Duplicates inside one batch (SpecStore).                                *)
(***************************************************************************)
\* A batch of Transactions two of which have one identity key that the table
\* does not hold.
DuplicatesInBatch(batch, table) ==
  /\ \A i \in 1..Len(batch) : IsTransaction(batch[i])
  /\ \E i, j \in 1..Len(batch) :
       /\ i < j
       /\ StoredKey(batch[i]) = StoredKey(batch[j])
       /\ StoredKey(batch[i]) \notin StoredKeys(table)

\* C25: duplicates inside one batch.  When a batch passed to save_transactions
\* contains two or more records with the same (date, description, amount,
\* source_file) that is not yet stored, the call succeeds (it can fail only on
\* a storage outage), stores exactly one row for that key (the first record's
\* fields) and returns the number of distinct keys of the batch that were not
\* stored before.
C25_DuplicatesInBatch ==
  LET batch == st[1].batch
      before == st[1].before
      fresh == {StoredKey(batch[i]) : i \in 1..Len(batch)} \ StoredKeys(before)
      first(key) == CHOOSE i \in 1..Len(batch) :
                      /\ StoredKey(batch[i]) = key
                      /\ \A j \in 1..(i - 1) : StoredKey(batch[j]) # key
  IN (st[1].pc \in {"returned", "raised"} /\ DuplicatesInBatch(batch, before)) =>
       /\ st[1].pc = "raised" => st[1].error = "OperationalError"
       /\ st[1].pc = "returned" =>
            /\ st[1].result = Cardinality(fresh)
            /\ Len(transactions) = Len(before) + Cardinality(fresh)
            /\ \A key \in fresh :
                 \E p \in 1..Len(transactions) : transactions[p] = DBTransaction(batch[first(key)])

(***************************************************************************)
(* Two callers ingesting the same statement (SpecConcurrent).              *)
(***************************************************************************)
\* Both callers call save_transactions with the same batch; from then on their
\* steps interleave in any order (one call may run to its end before the other
\* takes its first step).
CallConcurrently(batch) ==
  /\ \A c \in Callers : st[c].pc = "idle"
  /\ st' = [c \in Callers |->
              [StIdle EXCEPT !.pc = "begin", !.batch = batch, !.attempt = 1,
                             !.before = transactions]]
  /\ UNCHANGED <<transactions, statements, insights, now, sm, si, pl, tc>>

\* The database is reachable in this step of caller c: the only failure is
\* the unique constraint rejecting a commit.
Up(c) == st'[c].error # "OperationalError"

Step(c) == (StBegin(c) \/ StLoop(c) \/ StCommit(c)) /\ Up(c)

\* Batches of up to MaxBatch Transactions.
ConcurrentBatches == SeqsUpTo({T1, T2, T3, T4}, MaxBatch)

InitConcurrent ==
  /\ transactions \in {<<>>, <<DBTransaction(T1)>>}
  /\ statements = <<>>
  /\ insights = <<>>
  /\ now = 0
  /\ st = [c \in Callers |-> StIdle]
  /\ sm = SmIdle
  /\ si = [c \in SiCallers |-> SiIdle]
  /\ pl = PlIdle
  /\ tc = TcIdle

NextConcurrent ==
  \/ \E batch \in ConcurrentBatches : CallConcurrently(batch)
  \/ \E c \in Callers : Step(c)

\* A call that can take a step eventually takes it.
SpecConcurrent ==
  InitConcurrent /\ [][NextConcurrent]_vars /\ \A c \in Callers : WF_vars(Step(c))

BothEnded == \A c \in Callers : st[c].pc \in {"returned", "raised"}

\* What holds once both calls have ended.
OneRowPerKey ==
  BothEnded =>
    /\ \A c \in Callers : st[c].pc = "returned"
    /\ StoredKeys(transactions) =
         StoredKeys(st[1].before) \cup {StoredKey(st[1].batch[i]) : i \in 1..Len(st[1].batch)}
    /\ Cardinality(StoredKeys(transactions)) = Len(transactions)
    /\ st[1].result + st[2].result = Len(transactions) - Len(st[1].before)

\* C26: concurrent ingestion of the same statement.  Under every interleaving
\* of two save_transactions calls by different callers with the same batch
\* (existence checks and commit as separate steps, the commit rejected on a
\* unique-key conflict and then retried), both calls eventually return, the
\* store ends with exactly one row per key of the batch, and the sum of the
\* two returned counts equals the number of rows added.
C26_ConcurrentIngestion ==
  /\ \A c \in Callers : (st[c].pc = "begin") ~> (st[c].pc = "returned")
  /\ []OneRowPerKey

(***************************************************************************)
(* The cache after an aborted recompute and after ingestion (SpecInsights). *)
(***************************************************************************)
\* Some of the four insight types have an unexpired "all" row and some have
\* none.
PartialCache(table, t) ==
  /\ \E n \in 1..Len(INSIGHT_TYPES) : UnexpiredRow(table, t, INSIGHT_TYPES[n], "all") # 0
  /\ \E n \in 1..Len(INSIGHT_TYPES) : UnexpiredRow(table, t, INSIGHT_TYPES[n], "all") = 0

\* The recompute of the call ended at a step after the first.
AbortedAfterFirst == pl.pc = "raised" /\ Len(pl.log) >= 3

\* C27: partial cache after an aborted recompute.  When a recompute aborts at
\* step k > 1, the insight rows persisted by steps 1..k-1 stay committed with
\* a fresh 7-day expiry (7 days after a time of the run); a following non-forced run then takes the cache
\* path, returns those rows with empty defaults for the types that have no
\* unexpired row, and the missing types are not recomputed until every row
\* has expired or a forced refresh is requested.
C27_PartialCache ==
  /\ [](AbortedAfterFirst =>
          \A k \in 1..Len(INSIGHT_TYPES) :
            (\E n \in 1..Len(pl.log) : pl.log[n] = <<"saved", k>>) =>
              \E r \in 1..Len(insights) :
                /\ InsightKey(insights[r]) = <<INSIGHT_TYPES[k], "all">>
                /\ insights[r].value.text = pl.results[k].v
                /\ insights[r].expires_at \in 7..(now + 7))
  /\ [][(CacheChecked /\ PartialCache(insights, now) /\ pl'.error # "OperationalError")
          => /\ pl'.pc = "returned"
             /\ pl'.log = <<>>
             /\ insights' = insights
             /\ \A n \in 1..Len(INSIGHT_TYPES) :
                  ServedFromUnexpired(insights, now, INSIGHT_TYPES[n],
                                      pl'.report[INSIGHT_TYPES[n]])]_vars
  /\ [][(CacheChecked /\ pl'.pc = "tool") => ~SomeUnexpired(insights, now)]_vars

(***************************************************************************)
(* Ingestion and the insight cache (SpecIngest): statements are ingested,  *)
(* the pipeline is run and a caller stores merchant rows, one call at a    *)
(* time, while time passes.                                                *)
(***************************************************************************)
NextIngest ==
  \/ Quiet /\ CallSaveTransactions(1, <<T1>>)
  \/ StBegin(1)
  \/ StLoop(1)
  \/ StCommit(1)
  \/ Quiet /\ CallSaveStatementMetadata("a.pdf", M1)
  \/ SmBegin
  \/ SmCommit
  \/ \E force \in BOOLEAN : Quiet /\ CallPipeline(force)
  \/ PlCheck
  \/ PlTool
  \/ PlAfterSave
  \/ Quiet /\ CallSaveInsight(D3)
  \/ \E c \in SiCallers : SiBegin(c)
  \/ \E c \in SiCallers : SiCommit(c)
  \/ Tick

SpecIngest == Init /\ [][NextIngest]_vars

\* C28: ingestion does not invalidate the insight cache.  save_transactions
\* and save_statement_metadata leave every insights row unchanged, so a
\* non-forced pipeline call made after new transactions were stored, while
\* any insight row is still unexpired, returns the values of the stored rows,
\* computed before the ingestion; a non-forced call recomputes (and so shows
\* the new transactions) only when every row has expired.
C28_IngestionKeepsCache ==
  /\ [][(\/ transactions' # transactions
         \/ statements' # statements
         \/ \E c \in Callers : ~Ended(st[c]) \/ ~Ended(st'[c])
         \/ ~Ended(sm) \/ ~Ended(sm'))
          => insights' = insights]_vars
  /\ [][(CacheChecked /\ SomeUnexpired(insights, now) /\ pl'.error # "OperationalError")
          => /\ pl'.pc = "returned"
             /\ pl'.log = <<>>
             /\ \A n \in 1..Len(INSIGHT_TYPES) :
                  ServedFromUnexpired(insights, now, INSIGHT_TYPES[n],
                                      pl'.report[INSIGHT_TYPES[n]])
             /\ UNCHANGED <<transactions, statements, insights>>]_vars
  /\ [][(~pl.force /\ pl.pc = "check" /\ pl'.pc = "tool") => ~SomeUnexpired(insights, now)]_vars

(***************************************************************************)
(* Sequential use of the pipeline (SpecSequential): one run at a time,     *)
(* every tool and every save_insight of a recompute succeeds, and time     *)
(* passes a day at a time.                                                 *)
(***************************************************************************)
\* datetime.utcnow() a day later.
TickDay ==
  /\ now < MaxNow
  /\ now' = now + 1
  /\ UNCHANGED <<transactions, statements, insights, st, sm, si, pl, tc>>

NextSequential ==
  \/ \E force \in BOOLEAN : CallPipeline(force)
  \/ PlCheck
  \/ PlTool /\ pl'.pc # "raised"
  \/ SiBegin("pipeline") /\ si'["pipeline"].error = None
  \/ SiCommit("pipeline") /\ si'["pipeline"].error = None
  \/ PlAfterSave
  \/ TickDay

SpecSequential == InitInsights /\ [][NextSequential]_vars

\* The "all" row of a type, as its position; 0 when there is none.
AllRow(type) ==
  IF \E r \in 1..Len(insights) : InsightKey(insights[r]) = <<type, "all">>
  THEN CHOOSE r \in 1..Len(insights) : InsightKey(insights[r]) = <<type, "all">>
  ELSE 0

\* No recompute is in progress.
BetweenRecomputes == pl.pc \notin {"tool", "save"}

\* Of two "all" rows that both exist, the first expires and was computed no
\* later than the second.
NoLater(first, second) ==
  (AllRow(first) # 0 /\ AllRow(second) # 0) =>
    /\ insights[AllRow(first)].expires_at <= insights[AllRow(second)].expires_at
    /\ insights[AllRow(first)].computed_at <= insights[AllRow(second)].computed_at

ExpiryOrdered ==
  /\ NoLater("category_summary", "subscriptions")
  /\ NoLater("subscriptions", "trends")
  /\ NoLater("trends", "anomalies")

\* The four "all" rows are all there or all missing.
AllOrNone ==
  \/ \A type \in {"category_summary", "subscriptions", "trends", "anomalies"} : AllRow(type) = 0
  \/ \A type \in {"category_summary", "subscriptions", "trends", "anomalies"} : AllRow(type) # 0

\* A cache-hit report with computed_at carries the unexpired rows of the other
\* three types.
HitComplete ==
  (CacheChecked /\ pl'.pc = "returned" /\ pl'.report.computed_at # None)
    => \A type \in {"subscriptions", "trends", "anomalies"} :
         /\ AllRow(type) # 0
         /\ insights[AllRow(type)].expires_at > now
         /\ pl'.report[type] = insights[AllRow(type)].value.text

\* C29 (as amended): cache-hit completeness in sequential use.  When pipeline
\* runs do not overlap and every recompute completes, whenever no recompute
\* is in progress the "all" rows are all stored or all missing and satisfy
\* expires_at(category_summary) <= expires_at(subscriptions) <=
\* expires_at(trends) <= expires_at(anomalies); hence every cache-hit report
\* that carries a non-null computed_at also contains the cached
\* subscriptions, trends and anomalies of the same run, never an empty
\* default for them.
C29_CacheHitComplete ==
  /\ [](BetweenRecomputes => (AllOrNone /\ ExpiryOrdered))
  /\ [][HitComplete]_vars

\* C29: cache-hit completeness in sequential use.  When pipeline runs do not
\* overlap and every recompute completes, the "all" rows always satisfy
\* expires_at(category_summary) <= expires_at(subscriptions) <=
\* expires_at(trends) <= expires_at(anomalies); hence every cache-hit report
\* with a non-null computed_at also contains the cached subscriptions, trends
\* and anomalies of the same run.
C29_ExpiryOrderedAlways ==
  /\ []ExpiryOrdered
  /\ [][HitComplete]_vars

\* A cache hit with computed_at, on rows of a run that spanned a day: the
\* category summary expires before the anomalies.
C29_Witness ==
  /\ pl.pc = "returned"
  /\ pl.hit
  /\ pl.report.computed_at # None
  /\ AllRow("category_summary") # 0
  /\ AllRow("anomalies") # 0
  /\ insights[AllRow("category_summary")].expires_at
       < insights[AllRow("anomalies")].expires_at
  /\ pl.report.anomalies = insights[AllRow("anomalies")].value.text

(***************************************************************************)
(* persist_transactions(tx_list, filename) -> new_count                    *)
(*   The call is recorded in tc: pc is "called" while the function runs,   *)
(*   arg holds tx_list and filename.  Where the function stands follows    *)
(*   from the calls it has made: save_statement_metadata (sm) first, when  *)
(*   tx_list.summary is truthy, then save_transactions (st[1]).            *)
(***************************************************************************)
\* tx_list: TransactionList(summary: StatementMetadata | None, transactions).
\* A summary of None is NoMeta.
TransactionList(summary, txs) == [summary |-> summary, transactions |-> txs]

PersistLists ==
  {TransactionList(summary, txs) :
     summary \in {NoMeta, M1}, txs \in SeqsUpTo({T3, T4}, MaxBatch)}

\* request.filename is any str.
PersistFiles == {"a.pdf", ""}

\* for tx in tx_list.transactions: tx.source_file = filename
Stamp_mut(txs, filename) == txs
Stamp(txs, filename) ==
  [k \in 1..Len(txs) |-> [txs[k] EXCEPT !.source_file = filename]]

Persisting == tc.pc = "called" /\ tc.fn = "persist_transactions"

\* The call, up to and including init_db().
CallPersistTransactions(tx_list, filename) ==
  /\ tc.pc \in {"idle", "returned", "raised"}
  /\ Quiet
  /\ tc' = [pc |-> "called", fn |-> "persist_transactions",
            arg |-> [tx_list |-> tx_list, filename |-> filename], result |-> None]
  /\ st' = [d \in Callers |-> StForget(st[d])]
  /\ sm' = SmForget(sm)
  /\ si' = [d \in SiCallers |-> SiForget(si[d])]
  /\ pl' = PlForget(pl)
  /\ UNCHANGED <<transactions, statements, insights, now>>

\* if tx_list.summary: save_statement_metadata(filename, tx_list.summary)
PtMetadata ==
  /\ Persisting
  /\ sm.pc = "idle" /\ st[1].pc = "idle"
  /\ tc.arg.tx_list.summary # NoMeta
  /\ CallSaveStatementMetadata(tc.arg.filename, tc.arg.tx_list.summary)

\* The for loop, and the call of save_transactions(tx_list.transactions).
PtSave ==
  /\ Persisting
  /\ st[1].pc = "idle"
  /\ IF tc.arg.tx_list.summary # NoMeta THEN sm.pc = "returned" ELSE sm.pc = "idle"
  /\ CallSaveTransactions(1, Stamp(tc.arg.tx_list.transactions, tc.arg.filename))

\* return new_count, or the exception of the call that raised.
PtEnd ==
  /\ Persisting
  /\ \/ /\ sm.pc = "raised"
        /\ tc' = [tc EXCEPT !.pc = "raised", !.result = sm.error]
     \/ /\ st[1].pc = "raised"
        /\ tc' = [tc EXCEPT !.pc = "raised", !.result = st[1].error]
     \/ /\ st[1].pc = "returned"
        /\ tc' = [tc EXCEPT !.pc = "returned", !.result = st[1].result]
  /\ UNCHANGED <<transactions, statements, insights, now, st, sm, si, pl>>

\* Statements ingested one after the other by process_statement.
NextPersist ==
  \/ \E tx_list \in PersistLists, filename \in PersistFiles :
       CallPersistTransactions(tx_list, filename)
  \/ PtMetadata
  \/ SmBegin
  \/ SmCommit
  \/ PtSave
  \/ StBegin(1)
  \/ StLoop(1)
  \/ StCommit(1)
  \/ PtEnd

SpecPersist == Init /\ [][NextPersist]_vars

\* The statements row of the running call's file holds the call's summary.
MetadataStored ==
  LET row == FirstStatement(statements, tc.arg.filename)
  IN /\ row # 0
     /\ statements[row] = DBStatement(tc.arg.filename, tc.arg.tx_list.summary)

HasSummary == tc.arg.tx_list.summary # NoMeta

\* save_transactions of the running call has been started.
SaveStarted == st[1].pc # "idle"

\* C30: ordering of the two writes of persist_transactions.  The statement
\* metadata (when a summary is present) is committed in its own transaction
\* before save_transactions starts: while save_statement_metadata runs,
\* save_transactions has not started and the transactions table is left
\* alone, and once save_transactions has started the statements row of the
\* file is stored.  Every transaction of the run has source_file set to the
\* file name before being saved.  If save_transactions then fails after its
\* retries, the statements row of the file remains stored while none of the
\* run's transactions is: the transactions table is as it was at the call.
C30_PersistOrdering ==
  /\ [](Persisting =>
          /\ ~Ended(sm) => (~SaveStarted /\ HasSummary)
          /\ SaveStarted =>
               /\ HasSummary => (Ended(sm) /\ MetadataStored)
               /\ st[1].batch = Stamp(tc.arg.tx_list.transactions, tc.arg.filename)
               /\ \A k \in 1..Len(st[1].batch) :
                    st[1].batch[k].source_file = tc.arg.filename
               /\ \A k \in 1..Len(st[1].pending) :
                    st[1].pending[k].source_file = SourceFileOrUnknown(tc.arg.filename)
          /\ st[1].pc = "raised" =>
               /\ st[1].error \in SQLAlchemyError
               /\ st[1].attempt = MaxAttempts
               /\ transactions = st[1].before
               /\ HasSummary => MetadataStored)
  /\ [][(Persisting /\ ~Ended(sm)) => transactions' = transactions]_vars
  /\ [][(Persisting /\ SaveStarted) => statements' = statements]_vars

\* save_transactions failed after its retries in a run with a summary whose
\* file had no transaction stored: the statements row is there, no
\* transaction is.
C30_Witness ==
  /\ Persisting
  /\ HasSummary
  /\ st[1].pc = "raised"
  /\ st[1].attempt = MaxAttempts
  /\ Len(st[1].batch) > 0
  /\ MetadataStored
  /\ transactions = <<>>

====
